---- MODULE Spec2Model ----
(***************************************************************************)
(* Model of src/src/dynalist/DynalistService.ts: the per-document mutex    *)
(* (PerDocMutex), the operations of DynalistService that run under it, and *)
(* the remote document store they talk to through DynalistClient.          *)
(*                                                                         *)
(* Calls are numbered in submission order: call i is the i-th call made on *)
(* the service (or, for MutexSpec, the i-th call of PerDocMutex.run).      *)
(***************************************************************************)
EXTENDS Integers, Sequences, FiniteSets, TLC

\* Bounds of the model.
MaxRuns == 3    \* calls of PerDocMutex.run in MutexSpec
MaxOps == 2     \* service calls in Spec

\* Keys the mutex is used with (document ids).
Keys == {"d1", "d2"}

\* The parent ids createList is given: the root folder by name, and ''.
FolderKeys == {"root", ""}

VARIABLES
    calls,      \* the calls made so far, in submission order: [op, key, arg]
    pc,         \* pc[i]: where call i stands
    result,     \* result[i]: how call i's operation settled
    local,      \* local[i]: the local variables of call i's operation
    locks,      \* PerDocMutex.locks: key -> promise (NoPromise when absent)
    prev,       \* prev[i]: the promise call i awaits before running fn
    fulfilled,  \* the promises that are fulfilled
    docs,       \* the store: document id -> (node id -> node)
    nextId,     \* the store: document id -> next node id it hands out
    files,      \* the store: the flat list of files (documents and folders)
    log         \* the store calls served so far, in order

vars == <<calls, pc, result, local, locks, prev, fulfilled, docs, nextId, files, log>>

callVars == <<calls, pc, result, local>>
mutexVars == <<locks, prev, fulfilled>>
storeVars == <<docs, nextId, files, log>>

Calls == 1..Len(calls)

(***************************************************************************)
(* The remote document store behind DynalistClient.docRead / docEdit.      *)
(* A document is a function from node ids to nodes; the node id 'root' is  *)
(* written Root and the ids the store hands out are 1, 2, ...              *)
(***************************************************************************)
Root == 0

Node(content, checked, children) ==
    [content |-> content, checked |-> checked, children |-> children]

\* The document every list starts as: root -> [1 -> [3], 2], node 2 checked.
InitialDoc ==
    (Root :> Node("", FALSE, <<1, 2>>)) @@ (1 :> Node("a", FALSE, <<3>>))
        @@ (2 :> Node("b", TRUE, <<>>)) @@ (3 :> Node("c", FALSE, <<>>))

\* The store numbers new nodes on from the nodes the document has.
InitialNextId == Cardinality(DOMAIN InitialDoc)

Range(s) == {s[n] : n \in DOMAIN s}

RECURSIVE SortedSeq(_)
SortedSeq(S) ==
    IF S = {} THEN <<>>
    ELSE LET m == CHOOSE x \in S : \A y \in S : x <= y
         IN  <<m>> \o SortedSeq(S \ {m})

RECURSIVE DescendantIds(_, _)
DescendantIds(nodes, id) ==
    LET kids == Range(nodes[id].children) \cap DOMAIN nodes
    IN  kids \cup UNION {DescendantIds(nodes, c) : c \in kids}

Without(s, x) == SelectSeq(s, LAMBDA y : y # x)

Detach(nodes, id) ==
    [n \in DOMAIN nodes |-> [nodes[n] EXCEPT !.children = Without(@, id)]]

\* Insert x so that it has 0-based position index; past the end (or -1): append.
InsertAt(s, index, x) ==
    IF index < 0 \/ index >= Len(s)
    THEN Append(s, x)
    ELSE SubSeq(s, 1, index) \o <<x>> \o SubSeq(s, index + 1, Len(s))

\* doc/read: the response's nodes array, every node with its id.
docRead(nodes) ==
    LET ids == SortedSeq(DOMAIN nodes)
    IN  [nodes |-> [n \in DOMAIN ids |->
                      [id |-> ids[n], content |-> nodes[ids[n]].content,
                       checked |-> nodes[ids[n]].checked,
                       children |-> nodes[ids[n]].children]]]

\* One change of a doc/edit batch applied by the store; st is the store's
\* state during the batch: [nodes, nextId, new_node_ids, results].
ApplyChange(st, ch) ==
    LET refuse == [st EXCEPT !.results = Append(@, FALSE)]
        accept(nodes) == [st EXCEPT !.nodes = nodes, !.results = Append(@, TRUE)]
    IN  CASE ch.action = "insert" ->
               IF ch.parent_id \notin DOMAIN st.nodes THEN refuse
               ELSE LET id == st.nextId
                        made == Node(ch.content,
                                     IF "checked" \in DOMAIN ch THEN ch.checked ELSE FALSE,
                                     <<>>)
                        nodes == [st.nodes EXCEPT ![ch.parent_id].children =
                                     InsertAt(@, ch.index, id)] @@ (id :> made)
                    IN  [nodes |-> nodes, nextId |-> id + 1,
                         new_node_ids |-> Append(st.new_node_ids, id),
                         results |-> Append(st.results, TRUE)]
          [] ch.action = "edit" ->
               IF ch.node_id \notin DOMAIN st.nodes THEN refuse
               ELSE accept([st.nodes EXCEPT ![ch.node_id] =
                       [content |-> IF "content" \in DOMAIN ch THEN ch.content ELSE @.content,
                        checked |-> IF "checked" \in DOMAIN ch THEN ch.checked ELSE @.checked,
                        children |-> @.children]])
          [] ch.action = "move" ->
               IF \/ ch.node_id \notin DOMAIN st.nodes
                  \/ ch.node_id = Root
                  \/ ch.parent_id \notin DOMAIN st.nodes
                  \/ ch.parent_id \in {ch.node_id} \cup DescendantIds(st.nodes, ch.node_id)
               THEN refuse
               ELSE accept([Detach(st.nodes, ch.node_id) EXCEPT ![ch.parent_id].children =
                               InsertAt(@, ch.index, ch.node_id)])
          [] ch.action = "delete" ->
               IF ch.node_id \notin DOMAIN st.nodes \/ ch.node_id = Root THEN refuse
               ELSE LET gone == {ch.node_id} \cup DescendantIds(st.nodes, ch.node_id)
                        kept == Detach(st.nodes, ch.node_id)
                    IN  accept([n \in DOMAIN kept \ gone |-> kept[n]])

RECURSIVE ApplyChanges(_, _)
ApplyChanges(st, changes) ==
    IF changes = <<>> THEN st
    ELSE ApplyChanges(ApplyChange(st, Head(changes)), SubSeq(changes, 2, Len(changes)))

\* doc/edit: the batch applied in order; the response carries new_node_ids
\* (one per insert, in the order of the inserts) and the per-change results.
docEdit(nodes, nid, changes) ==
    ApplyChanges([nodes |-> nodes, nextId |-> nid,
                  new_node_ids |-> <<>>, results |-> <<>>], changes)

(***************************************************************************)
(* DynalistService: helpers and the planning each operation does between   *)
(* its store calls.  Optional fields of the TypeScript objects are record  *)
(* fields that may be missing; array positions are 0-based as in the code. *)
(***************************************************************************)
Has(r, f) == f \in DOMAIN r

\* indexById: a Map from id to node; a later node of the same id wins.
indexById(nodes) ==
    [id \in {nodes[n].id : n \in DOMAIN nodes} |->
        nodes[CHOOSE n \in DOMAIN nodes :
                 /\ nodes[n].id = id
                 /\ \A m \in DOMAIN nodes : nodes[m].id = id => m <= n]]

getRootChildrenCount(doc) ==
    LET roots == {n \in DOMAIN doc.nodes : doc.nodes[n].id = Root}
    IN  IF roots = {} THEN 0
        ELSE Len(doc.nodes[CHOOSE n \in roots : \A m \in roots : n <= m].children)

\* Faulty variant of InsertIndex: the offset is counted from 1.
InsertIndexFromOne(position, start, offset) ==
    IF position = "top" THEN 0 + offset + 1 ELSE start + offset + 1

\* Faulty variant of InsertIndex: the offset within the batch is not added.
InsertIndexNoOffset(position, start, offset) ==
    IF position = "top" THEN 0 ELSE start

\* position === 'top' ? 0 + offset : start + offset
InsertIndex(position, start, offset) ==
    IF position = "top" THEN 0 + offset ELSE start + offset

\* opts?.position ?? 'bottom'
PositionOf(item) ==
    IF Has(item, "opts") /\ Has(item.opts, "position") THEN item.opts.position ELSE "bottom"

\* The insert change built for the item at 0-based place offset of the batch.
InsertChange(parent_id, start, offset, item) ==
    LET base == [action |-> "insert", parent_id |-> parent_id,
                 index |-> InsertIndex(PositionOf(item), start, offset),
                 content |-> item.text]
    IN  IF Has(item, "opts") /\ Has(item.opts, "checked")
        THEN base @@ [checked |-> item.opts.checked]
        ELSE base

InsertChanges(parent_id, start, texts) ==
    [n \in DOMAIN texts |-> InsertChange(parent_id, start, n - 1, texts[n])]

\* The ListItem built from a node (note and _node are not modelled).
ListItem(n) ==
    [id |-> n.id, content |-> n.content, checked |-> n.checked, children |-> n.children]

\* Faulty variant of getItems: every node but root is listed.
getItemsAllNodes(doc) ==
    LET listed == SelectSeq(doc.nodes, LAMBDA n : n.id # Root)
    IN  [n \in DOMAIN listed |-> ListItem(listed[n])]

\* getItems, after its docRead: the top-level items, unknown ids skipped.
getItems(doc) ==
    LET nodes == indexById(doc.nodes)
    IN  IF Root \notin DOMAIN nodes THEN <<>>
        ELSE LET ids == SelectSeq(nodes[Root].children, LAMBDA id : id \in DOMAIN nodes)
             IN  [n \in DOMAIN ids |-> ListItem(nodes[ids[n]])]

\* Faulty variant of findParentPath: the parent is put before its ancestors.
RECURSIVE findParentPathNearestFirst(_, _)
findParentPathNearestFirst(doc, targetId) ==
    LET owners == {n \in DOMAIN doc.nodes : targetId \in Range(doc.nodes[n].children)}
        parentId == doc.nodes[CHOOSE n \in owners : \A m \in owners : n <= m].id
    IN  IF owners = {} \/ parentId = Root THEN <<>>
        ELSE <<parentId>> \o findParentPathNearestFirst(doc, parentId)

\* getItemAncestors: findParentPath, the first node in Map order whose
\* children include targetId, its own path first; [] at root or with no owner.
RECURSIVE findParentPath(_, _)
findParentPath(doc, targetId) ==
    LET owners == {n \in DOMAIN doc.nodes : targetId \in Range(doc.nodes[n].children)}
        parentId == doc.nodes[CHOOSE n \in owners : \A m \in owners : n <= m].id
    IN  IF owners = {} \/ parentId = Root THEN <<>>
        ELSE findParentPath(doc, parentId) \o <<parentId>>

\* getItemAncestors, after its docRead and its test that the node exists:
\* one ListItem per id of the path, ids missing from the Map skipped.
getItemAncestors(doc, nodeId) ==
    LET nodes == indexById(doc.nodes)
        ancestorIds == SelectSeq(findParentPath(doc, nodeId), LAMBDA id : id \in DOMAIN nodes)
    IN  [n \in DOMAIN ancestorIds |-> ListItem(nodes[ancestorIds[n]])]

\* Faulty variant of collectDescendants: the children's children are not
\* collected.
collectDescendantsShallow(nodes, nodeIds) ==
    LET known == SelectSeq(nodeIds, LAMBDA id : id \in DOMAIN nodes)
    IN  [n \in DOMAIN known |-> ListItem(nodes[known[n]])]

\* getItemDescendants: collectDescendants, for each id that resolves: the
\* descendants of its children are collected, then its own item is pushed.
RECURSIVE collectDescendants(_, _)
collectDescendants(nodes, nodeIds) ==
    IF nodeIds = <<>> THEN <<>>
    ELSE LET id == Head(nodeIds)
             later == collectDescendants(nodes, SubSeq(nodeIds, 2, Len(nodeIds)))
         IN  IF id \notin DOMAIN nodes THEN later
             ELSE collectDescendants(nodes, nodes[id].children)
                     \o <<ListItem(nodes[id])>> \o later

\* getItemDescendants, after its docRead and its test that the node exists.
getItemDescendants(doc, nodeId) ==
    LET nodes == indexById(doc.nodes)
    IN  collectDescendants(nodes, nodes[nodeId].children)

\* Faulty variant of buildTree: the children get their parent's depth.
RECURSIVE buildTreeSameDepth(_, _, _)
buildTreeSameDepth(nodes, nodeIds, depth) ==
    LET known == SelectSeq(nodeIds, LAMBDA id : id \in DOMAIN nodes)
    IN  [n \in DOMAIN known |->
            [id |-> nodes[known[n]].id, content |-> nodes[known[n]].content,
             checked |-> nodes[known[n]].checked,
             children |-> buildTreeSameDepth(nodes, nodes[known[n]].children, depth),
             depth |-> depth]]

\* getItemsWithTree: buildTree, one item per id that resolves, its children
\* built one level deeper.
RECURSIVE buildTree(_, _, _)
buildTree(nodes, nodeIds, depth) ==
    LET known == SelectSeq(nodeIds, LAMBDA id : id \in DOMAIN nodes)
    IN  [n \in DOMAIN known |->
            [id |-> nodes[known[n]].id, content |-> nodes[known[n]].content,
             checked |-> nodes[known[n]].checked,
             children |-> buildTree(nodes, nodes[known[n]].children, depth + 1),
             depth |-> depth]]

\* getItemsWithTree, after its docRead.
getItemsWithTree(doc) ==
    LET nodes == indexById(doc.nodes)
    IN  IF Root \notin DOMAIN nodes THEN <<>>
        ELSE buildTree(nodes, nodes[Root].children, 0)

\* getItemChildren, after its docRead and its test that the parent exists.
getItemChildren(doc, parentNodeId) ==
    LET nodes == indexById(doc.nodes)
        ids == SelectSeq(nodes[parentNodeId].children, LAMBDA id : id \in DOMAIN nodes)
    IN  [n \in DOMAIN ids |-> ListItem(nodes[ids[n]])]

\* Faulty variant of CheckedIds: the items are not filtered.
CheckedIdsUnfiltered(items) ==
    [n \in DOMAIN items |-> items[n].id]

\* clearList: items.filter((i) => i.checked).map((i) => i.id)
CheckedIds(items) ==
    LET checked == SelectSeq(items, LAMBDA it : it.checked)
    IN  [n \in DOMAIN checked |-> checked[n].id]

\* Faulty variant of CurrentParent: the search is skipped.
CurrentParentDefault(doc, nodeId) ==
    Root

\* moveItem: the current parent, by searching the nodes in Map order.
CurrentParent(doc, nodeId) ==
    LET owners == {n \in DOMAIN doc.nodes : nodeId \in Range(doc.nodes[n].children)}
    IN  IF owners = {} THEN Root
        ELSE doc.nodes[CHOOSE n \in owners : \A m \in owners : n <= m].id

Min(a, b) == IF a < b THEN a ELSE b
Max(a, b) == IF a > b THEN a ELSE b

\* 0-based position of x in s, -1 when absent (Array.indexOf).
IndexOf(s, x) ==
    IF x \in Range(s)
    THEN (CHOOSE n \in DOMAIN s : s[n] = x /\ \A m \in DOMAIN s : s[m] = x => n <= m) - 1
    ELSE -1

\* MoveTarget.position is 'top' | 'bottom' | number: written <<"top">>,
\* <<"bottom">> or <<"number", n>>, so that typeof can be asked of it.
Top == <<"top">>
Bottom == <<"bottom">>
At(n) == <<"number", n>>

\* Faulty variant of BottomIndex: the last occupied place, not the one after.
BottomIndexLast(siblings) ==
    Len(siblings) - 1

\* position === 'bottom': index = siblings.length
BottomIndex(siblings) ==
    Len(siblings)

\* Faulty variant of TargetMissing: the result of indexOf is not looked at.
TargetMissingNever(i) ==
    FALSE

\* if (i < 0) throw new Error("Target 'before' / 'after' node not found")
TargetMissing(i) ==
    i < 0

\* Faulty variant of NodeMissing: the lookup's result is not tested.
NodeMissingNever(nodes, nodeId) ==
    FALSE

\* const currentNode = nodes.get(nodeId); if (!currentNode) throw ...
NodeMissing(nodes, nodeId) ==
    nodeId \notin DOMAIN nodes

\* Faulty variant of ClampIndex: no floor at 0.
ClampIndexNoFloor(position, siblingCount) ==
    Min(position, siblingCount)

\* moveItem: a numeric position clamped to [0, siblingCount].
ClampIndex(position, siblingCount) ==
    Max(0, Min(position, siblingCount))

\* moveItem, after its docRead: the move change, or the error thrown.
MovePlan(doc, nodeId, target) ==
    LET nodes == indexById(doc.nodes)
        targetParentId == IF Has(target, "parent") THEN target.parent
                          ELSE CurrentParent(doc, nodeId)
    IN  IF NodeMissing(nodes, nodeId) THEN [error |-> "Node not found"]
        ELSE IF targetParentId \notin DOMAIN nodes
        THEN [error |-> "Target parent not found"]
        ELSE LET siblings == nodes[targetParentId].children
                 move(index) == [change |->
                                   [action |-> "move", node_id |-> nodeId,
                                    parent_id |-> targetParentId, index |-> index]]
             IN  IF Has(target, "position") /\ target.position[1] = "number"
                 THEN move(ClampIndex(target.position[2], Len(siblings)))
                 ELSE IF Has(target, "position") /\ target.position = Top
                 THEN move(0)
                 ELSE IF Has(target, "position") /\ target.position = Bottom
                 THEN move(BottomIndex(siblings))
                 ELSE IF Has(target, "before")
                 THEN IF TargetMissing(IndexOf(siblings, target.before))
                      THEN [error |-> "Target 'before' node not found"]
                      ELSE move(IndexOf(siblings, target.before))
                 ELSE IF Has(target, "after")
                 THEN IF TargetMissing(IndexOf(siblings, target.after))
                      THEN [error |-> "Target 'after' node not found"]
                      ELSE move(IndexOf(siblings, target.after) + 1)
                 ELSE move(Len(siblings))

\* Faulty variant of RestructureError: only the first operation is validated.
RestructureErrorFirstOnly(doc, operations) ==
    LET nodes == indexById(doc.nodes)
    IN  IF operations[1].nodeId \notin DOMAIN nodes THEN "Node not found"
        ELSE IF Has(operations[1], "newParent") /\ operations[1].newParent \notin DOMAIN nodes
        THEN "Parent node not found"
        ELSE ""

\* restructureItemsInternal, after its docRead: the error thrown for the
\* first operation that names an unknown node or parent, "" when none does.
RestructureError(doc, operations) ==
    LET nodes == indexById(doc.nodes)
        noNode(n) == operations[n].nodeId \notin DOMAIN nodes
        noParent(n) == Has(operations[n], "newParent")
                          /\ operations[n].newParent \notin DOMAIN nodes
        bad == {n \in DOMAIN operations : noNode(n) \/ noParent(n)}
    IN  IF bad = {} THEN ""
        ELSE IF noNode(CHOOSE n \in bad : \A m \in bad : n <= m)
        THEN "Node not found"
        ELSE "Parent node not found"

\* Faulty variant of RestructureChanges: the moves are listed last to first.
RestructureChangesReversed(operations) ==
    [n \in DOMAIN operations |->
        [action |-> "move", node_id |-> operations[Len(operations) + 1 - n].nodeId,
         parent_id |-> IF Has(operations[Len(operations) + 1 - n], "newParent")
                       THEN operations[Len(operations) + 1 - n].newParent ELSE Root,
         index |-> operations[Len(operations) + 1 - n].newIndex]]

\* The move changes: one per operation, in the given order.
RestructureChanges(operations) ==
    [n \in DOMAIN operations |->
        [action |-> "move", node_id |-> operations[n].nodeId,
         parent_id |-> IF Has(operations[n], "newParent")
                       THEN operations[n].newParent ELSE Root,
         index |-> operations[n].newIndex]]

\* createListHierarchically: flattenTree.  parentIndex is <<>> (undefined)
\* or <<p>>; an entry has the field parentIndex only when it is defined.
RECURSIVE flattenTree(_, _, _, _)
flattenTree(nodes, depth, parentIndex, flatNodes) ==
    IF nodes = <<>> THEN flatNodes
    ELSE LET node == Head(nodes)
             currentIndex == Len(flatNodes)
             entry == IF parentIndex # <<>>
                      THEN [node |-> node, depth |-> depth, parentIndex |-> parentIndex[1]]
                      ELSE [node |-> node, depth |-> depth]
             pushed == Append(flatNodes, entry)
             below == IF Has(node, "children") /\ Len(node.children) > 0
                      THEN flattenTree(node.children, depth + 1, <<currentIndex>>, pushed)
                      ELSE pushed
         IN  flattenTree(SubSeq(nodes, 2, Len(nodes)), depth, parentIndex, below)

\* Faulty variant of CreateRequests: the entries are listed last to first.
CreateRequestsReversed(flatNodes) ==
    [n \in DOMAIN flatNodes |->
        [text |-> flatNodes[Len(flatNodes) + 1 - n].node.content,
         opts |-> << >>]]

\* The create requests: one per flattened entry, position undefined.
CreateRequests(flatNodes) ==
    [n \in DOMAIN flatNodes |->
        [text |-> flatNodes[n].node.content,
         opts |-> IF Has(flatNodes[n].node, "checked")
                  THEN [checked |-> flatNodes[n].node.checked]
                  ELSE << >>]]

\* Faulty variant of RestructureOps: every entry is moved to the front of its
\* parent (indexWithinParent is not counted).
RestructureOpsAtFront(flatNodes, createdIds) ==
    LET moved == SelectSeq([n \in DOMAIN flatNodes |-> n],
                           LAMBDA n : Has(flatNodes[n], "parentIndex"))
    IN  [k \in DOMAIN moved |->
            [nodeId |-> createdIds[moved[k]],
             newParent |-> createdIds[flatNodes[moved[k]].parentIndex + 1],
             newIndex |-> 0]]

\* Phase 3: one restructure operation per entry that has a parent; the index
\* within the parent counts the earlier entries of the same parent.
RestructureOps(flatNodes, createdIds) ==
    LET moved == SelectSeq([n \in DOMAIN flatNodes |-> n],
                           LAMBDA n : Has(flatNodes[n], "parentIndex"))
    IN  [k \in DOMAIN moved |->
            LET i == moved[k]
                parentIndex == flatNodes[i].parentIndex
            IN  [nodeId |-> createdIds[i],
                 newParent |-> createdIds[parentIndex + 1],
                 newIndex |-> Cardinality({j \in 1..(i - 1) :
                                 Has(flatNodes[j], "parentIndex")
                                    /\ flatNodes[j].parentIndex = parentIndex})]]

RootNodeIds(flatNodes, createdIds) ==
    LET tops == SelectSeq([n \in DOMAIN flatNodes |-> n],
                          LAMBDA n : ~Has(flatNodes[n], "parentIndex"))
    IN  [k \in DOMAIN tops |-> createdIds[tops[k]]]

(***************************************************************************)
(* Promises.  Each call of run creates `next' (pending until release()) and *)
(* `prev.then(() => next)'; the first call on a key also creates the       *)
(* already fulfilled Promise.resolve().  A promise is identified by the    *)
(* call that created it and its role.                                      *)
(***************************************************************************)
NoPromise == <<"none", 0>>
Imm(i) == <<"resolve", i>>
NextP(i) == <<"next", i>>
ThenP(i) == <<"then", i>>

NoResult == [status |-> "pending"]
Ok(v) == [status |-> "ok", value |-> v]
Err(m) == [status |-> "error", message |-> m]
NoLocal == [changes |-> <<>>]

\* Faulty variants of PrevOf, used to see that the properties depend on it.
\* The tail of whatever key has one is taken: one chain for all keys.
PrevOfUnkeyed(lk, key, i) ==
    LET held == {k \in DOMAIN lk : lk[k] # NoPromise}
    IN  IF held = {} THEN Imm(i) ELSE lk[CHOOSE k \in held : TRUE]

\* The tail is never looked up: every call starts a chain of its own.
PrevOfFresh(lk, key, i) ==
    Imm(i)

\* The tail is read after the call has installed its own.
PrevOfSelf(lk, key, i) ==
    ThenP(i)

\* const prev = this.locks.get(key) ?? Promise.resolve();
PrevOf(lk, key, i) ==
    IF lk[key] = NoPromise THEN Imm(i) ELSE lk[key]

\* Faulty variant of ThenFulfils: the callback does not return next.
ThenFulfilsEarly(p, i, done) ==
    p \in done

\* prev.then(() => next): fulfilled once prev is and then next is.
ThenFulfils(p, i, done) ==
    p \in done /\ NextP(i) \in done

\* Faulty variant of AwaitResumes: prev is not awaited.
AwaitSkipped(p, done) ==
    TRUE

\* await prev: resumes once prev is fulfilled.
AwaitResumes(p, done) ==
    p \in done

\* Faulty variant of Releases: release() is called after fn() returned only.
ReleasesOnSuccessOnly(r) ==
    r.status = "ok"

\* finally { release(); ... }: release() runs however fn settled.
Releases(r) ==
    r.status \in {"ok", "error"}

\* if (this.locks.get(key) === next) this.locks.delete(key);
CleanupDeletes(lk, key, i) ==
    lk[key] = NextP(i)

\* The synchronous part of run(key, fn), up to `await prev'.
MutexRun(i, call) ==
    /\ calls' = Append(calls, call)
    /\ prev' = Append(prev, PrevOf(locks, call.key, i))
    /\ fulfilled' = IF PrevOf(locks, call.key, i) = Imm(i)
                    THEN fulfilled \cup {Imm(i)}
                    ELSE fulfilled
    /\ locks' = [locks EXCEPT ![call.key] = ThenP(i)]
    /\ pc' = Append(pc, "awaitPrev")
    /\ result' = Append(result, NoResult)
    /\ local' = Append(local, NoLocal)

\* The operations that call docRead without going through mutex.run.
ReadOps ==
    {"getItems", "getItemAncestors", "getItemDescendants", "getItemsWithTree",
     "getItemChildren"}

UsesMutex(call) == call.op \notin ReadOps

\* Where an operation goes next: on to a store call, or settled.
Goto(p, loc) == [pc |-> p, local |-> loc, result |-> NoResult]
Return(v) == [pc |-> "settled", local |-> NoLocal, result |-> Ok(v)]
Throw(m) == [pc |-> "settled", local |-> NoLocal, result |-> Err(m)]

DeleteChanges(nodeIds) ==
    [n \in DOMAIN nodeIds |-> [action |-> "delete", node_id |-> nodeIds[n]]]

(***************************************************************************)
(* createList.  A name is kept as its runs of equal characters,            *)
(* <<[ch |-> "a", n |-> 200], [ch |-> " ", n |-> 1]>> being 200 a's and a  *)
(* blank; an error message is a string whose characters Text gives.        *)
(***************************************************************************)
Whitespace == {" "}

RECURSIVE trimStart(_)
trimStart(s) ==
    IF s # <<>> /\ s[1].ch \in Whitespace THEN trimStart(SubSeq(s, 2, Len(s))) ELSE s

RECURSIVE trimEnd(_)
trimEnd(s) ==
    IF s # <<>> /\ s[Len(s)].ch \in Whitespace THEN trimEnd(SubSeq(s, 1, Len(s) - 1)) ELSE s

\* String.prototype.trim
trim(s) == trimEnd(trimStart(s))

\* String.prototype.length
RECURSIVE length(_)
length(s) == IF s = <<>> THEN 0 ELSE s[1].n + length(SubSeq(s, 2, Len(s)))

MaxTitleLength == 200

\* Faulty variant of TitleError: the length is not tested.
TitleErrorEmptyOnly(title) ==
    IF length(title) = 0 THEN "List name is empty" ELSE ""

\* if (!title) throw ...; if (title.length > 200) throw ...; "" when neither.
TitleError(title) ==
    IF length(title) = 0 THEN "List name is empty"
    ELSE IF length(title) > MaxTitleLength THEN "List name is too long"
    ELSE ""

\* The characters of the strings that messages are made of and tested for.
Text(message) ==
    CASE message = "LockFail" -> <<"L", "o", "c", "k", "F", "a", "i", "l">>
      [] message = "Blocked" -> <<"B", "l", "o", "c", "k", "e", "d">>
      [] message = "TooManyRequests" ->
           <<"T", "o", "o", "M", "a", "n", "y", "R", "e", "q", "u", "e", "s", "t", "s">>
      [] message = "TOOMANYREQUESTS" ->
           <<"T", "O", "O", "M", "A", "N", "Y", "R", "E", "Q", "U", "E", "S", "T", "S">>
      [] message = "Too many" -> <<"T", "o", "o", " ", "m", "a", "n", "y">>
      [] message = "Invalid" -> <<"I", "n", "v", "a", "l", "i", "d">>
      [] message = "create failed" ->
           <<"c", "r", "e", "a", "t", "e", " ", "f", "a", "i", "l", "e", "d">>
      [] message = "fetch failed" ->
           <<"f", "e", "t", "c", "h", " ", "f", "a", "i", "l", "e", "d">>
      [] message = "network error" ->
           <<"n", "e", "t", "w", "o", "r", "k", " ", "e", "r", "r", "o", "r">>
      [] message = "ECONNRESET" -> <<"E", "C", "O", "N", "N", "R", "E", "S", "E", "T">>
      [] message = "ETIMEDOUT" -> <<"E", "T", "I", "M", "E", "D", "O", "U", "T">>
      [] message = "AbortError" -> <<"A", "b", "o", "r", "t", "E", "r", "r", "o", "r">>
      [] message = "socket hang up" ->
           <<"s", "o", "c", "k", "e", "t", " ", "h", "a", "n", "g", " ", "u", "p">>
      [] message = "HTTP " -> <<"H", "T", "T", "P", " ">>
      [] message = "Bad Request" ->
           <<"B", "a", "d", " ", "R", "e", "q", "u", "e", "s", "t">>
      [] message = "upstream ETIMEDOUT" ->
           <<"u", "p", "s", "t", "r", "e", "a", "m", " ", "E", "T", "I", "M", "E", "D", "O", "U", "T">>
      [] message = "[Dynalist API] " ->
           <<"[", "D", "y", "n", "a", "l", "i", "s", "t", " ", "A", "P", "I", "]", " ">>
      [] message = ": " -> <<":", " ">>
      [] message = " " -> <<" ">>
      [] message = "Unknown" -> <<"U", "n", "k", "n", "o", "w", "n">>
      [] message = "Unknown error" ->
           <<"U", "n", "k", "n", "o", "w", "n", " ", "e", "r", "r", "o", "r">>
      [] message = "Ok" -> <<"O", "k">>
      [] message = "OK" -> <<"O", "K">>
      [] message = "ok" -> <<"o", "k">>
      [] message = "NotFound" -> <<"N", "o", "t", "F", "o", "u", "n", "d">>
      [] message = "bad token" -> <<"b", "a", "d", " ", "t", "o", "k", "e", "n">>
      [] message = "200" -> <<"2", "0", "0">>
      [] message = "400" -> <<"4", "0", "0">>
      [] message = "429" -> <<"4", "2", "9">>
      [] message = "500" -> <<"5", "0", "0">>
      [] message = "599" -> <<"5", "9", "9">>
      [] message = "" -> <<>>

UpperCase ==
    <<"A", "B", "C", "D", "E", "F", "G", "H", "I", "J", "K", "L", "M",
      "N", "O", "P", "Q", "R", "S", "T", "U", "V", "W", "X", "Y", "Z">>

LowerCase ==
    <<"a", "b", "c", "d", "e", "f", "g", "h", "i", "j", "k", "l", "m",
      "n", "o", "p", "q", "r", "s", "t", "u", "v", "w", "x", "y", "z">>

ToLower(c) ==
    IF c \in Range(UpperCase)
    THEN LowerCase[CHOOSE n \in DOMAIN UpperCase : UpperCase[n] = c]
    ELSE c

\* pattern occurs in text, letters compared without regard to case.
MatchesIgnoringCase(text, pattern) ==
    \E k \in 0..(Len(text) - Len(pattern)) :
        \A n \in DOMAIN pattern : ToLower(text[k + n]) = ToLower(pattern[n])

\* Faulty variant of Transient: the letters are compared as they are.
TransientCaseSensitive(message) ==
    LET occurs(text, pattern) ==
            \E k \in 0..(Len(text) - Len(pattern)) :
                \A n \in DOMAIN pattern : text[k + n] = pattern[n]
    IN  \/ occurs(Text(message), <<"l", "o", "c", "k">>)
        \/ occurs(Text(message), Text("TooManyRequests"))

\* /lock|TooManyRequests/i.test(msg)
Transient(message) ==
    \/ MatchesIgnoringCase(Text(message), <<"l", "o", "c", "k">>)
    \/ MatchesIgnoringCase(Text(message), Text("TooManyRequests"))

MaxCreateAttempts == 3

\* doCreate, given what client.fileEdit did: it threw (resp has `thrown'),
\* or it returned a response, with or without created ids.
doCreate(resp) ==
    IF Has(resp, "thrown") THEN [error |-> resp.thrown]
    ELSE IF ~Has(resp, "created") \/ Len(resp.created) = 0
    THEN [error |-> IF Has(resp, "_msg") /\ resp._msg # "" THEN resp._msg
                    ELSE "create failed"]
    ELSE [id |-> resp.created[1]]

\* createList, from the response of fileList to the first create attempt.
AfterFileList(call, loc, resp) ==
    LET index == IF Has(resp, "files") THEN Len(resp.files) ELSE 0
    IN  IF Has(resp, "thrown") THEN Throw(resp.thrown)
        ELSE
        Goto("fileEdit",
             [i |-> 0, lastErr |-> "",
              changes |-> <<[action |-> "create", type |-> "document",
                             parent_id |-> IF call.key = "" THEN "root" ELSE call.key,
                             index |-> index, title |-> loc.title]>>])

\* One turn of the retry loop, given what client.fileEdit did.
AfterFileEdit(call, loc, resp) ==
    LET made == doCreate(resp)
    IN  IF Has(made, "id") THEN Return([id |-> made.id])
        ELSE IF ~Transient(made.error) THEN Throw(made.error)
        ELSE Goto("backoff", [loc EXCEPT !.lastErr = made.error])

\* The backoff timer fires: i++, then the loop test and `throw lastErr'.
AfterBackoff(call, loc) ==
    IF loc.i + 1 < MaxCreateAttempts THEN Goto("fileEdit", [loc EXCEPT !.i = @ + 1])
    ELSE Throw(loc.lastErr)

\* How the operation passed to run starts once admitted, up to its first
\* store call (or its return when it makes none).
Entry(call) ==
    CASE call.op = "fn" -> Goto("running", NoLocal)
      [] call.op = "addItems" ->
           IF Len(call.arg.texts) = 0 THEN Return([ids |-> <<>>])
           ELSE Goto("read", NoLocal)
      [] call.op \in {"addSubItems", "moveItem", "clearList"} -> Goto("read", NoLocal)
      [] call.op = "deleteItems" ->
           IF Len(call.arg.nodeIds) = 0 THEN Return(0)
           ELSE Goto("edit", [changes |-> DeleteChanges(call.arg.nodeIds)])
      [] call.op = "checkItems" ->
           IF Len(call.arg.nodeIds) = 0 THEN Return(0)
           ELSE Goto("edit", [changes |->
                   [n \in DOMAIN call.arg.nodeIds |->
                       [action |-> "edit", node_id |-> call.arg.nodeIds[n],
                        checked |-> call.arg.checked]]])
      [] call.op = "editItems" ->
           IF Len(call.arg.edits) = 0 THEN Return(0)
           ELSE Goto("edit", [changes |->
                   [n \in DOMAIN call.arg.edits |->
                       [action |-> "edit", node_id |-> call.arg.edits[n].nodeId]
                           @@ call.arg.edits[n].changes]])
      [] call.op = "restructureItems" ->
           IF Len(call.arg.operations) = 0 THEN Return(0)
           ELSE Goto("read", NoLocal)
      [] call.op = "createList" ->
           LET title == trim(call.arg.name)
           IN  IF TitleError(title) # "" THEN Throw(TitleError(title))
               ELSE Goto("fileList", [title |-> title])
      [] call.op = "createListHierarchically" ->
           IF Len(call.arg.tree) = 0 THEN Return([rootNodes |-> <<>>])
           ELSE Goto("read", [changes |-> <<>>,
                              flatNodes |-> flattenTree(call.arg.tree, 0, <<>>, <<>>)])

\* What an operation does with the response of its docRead, up to its next
\* store call.  phase is "read", or "read2" for the second read of
\* createListHierarchically (inside restructureItemsInternal).
AfterRead(call, phase, loc, doc) ==
    CASE call.op = "addItems" ->
           Goto("edit", [changes |->
               InsertChanges(Root, getRootChildrenCount(doc), call.arg.texts)])
      [] call.op = "addSubItems" ->
           LET nodes == indexById(doc.nodes)
           IN  IF call.arg.parentNodeId \notin DOMAIN nodes
               THEN Throw("Parent node not found")
               ELSE Goto("edit", [changes |->
                       InsertChanges(call.arg.parentNodeId,
                                     Len(nodes[call.arg.parentNodeId].children),
                                     call.arg.texts)])
      [] call.op = "moveItem" ->
           LET plan == MovePlan(doc, call.arg.nodeId, call.arg.target)
           IN  IF Has(plan, "error") THEN Throw(plan.error)
               ELSE Goto("edit", [changes |-> <<plan.change>>])
      [] call.op = "clearList" ->
           LET toDelete == CheckedIds(getItems(doc))
           IN  IF Len(toDelete) = 0 THEN Return(0)
               ELSE Goto("edit", [changes |-> DeleteChanges(toDelete)])
      [] call.op = "restructureItems" ->
           IF RestructureError(doc, call.arg.operations) # ""
           THEN Throw(RestructureError(doc, call.arg.operations))
           ELSE Goto("edit", [changes |-> RestructureChanges(call.arg.operations)])
      [] call.op = "createListHierarchically" /\ phase = "read" ->
           Goto("edit", [loc EXCEPT !.changes =
               InsertChanges(Root, getRootChildrenCount(doc), CreateRequests(loc.flatNodes))])
      [] call.op = "createListHierarchically" /\ phase = "read2" ->
           IF RestructureError(doc, loc.restructureOps) # ""
           THEN Throw(RestructureError(doc, loc.restructureOps))
           ELSE Goto("edit2", [loc EXCEPT !.changes = RestructureChanges(loc.restructureOps)])
      [] call.op = "getItems" ->
           [pc |-> "done", local |-> NoLocal, result |-> Ok(getItems(doc))]
      [] call.op = "getItemAncestors" ->
           [pc |-> "done", local |-> NoLocal,
            result |-> IF call.arg.nodeId \notin DOMAIN indexById(doc.nodes)
                       THEN Err("Node not found")
                       ELSE Ok(getItemAncestors(doc, call.arg.nodeId))]
      [] call.op = "getItemDescendants" ->
           [pc |-> "done", local |-> NoLocal,
            result |-> IF call.arg.nodeId \notin DOMAIN indexById(doc.nodes)
                       THEN Err("Node not found")
                       ELSE Ok(getItemDescendants(doc, call.arg.nodeId))]
      [] call.op = "getItemsWithTree" ->
           [pc |-> "done", local |-> NoLocal, result |-> Ok(getItemsWithTree(doc))]
      [] call.op = "getItemChildren" ->
           [pc |-> "done", local |-> NoLocal,
            result |-> IF call.arg.parentNodeId \notin DOMAIN indexById(doc.nodes)
                       THEN Err("Parent node not found")
                       ELSE Ok(getItemChildren(doc, call.arg.parentNodeId))]

\* const ids = resp.new_node_ids ?? [];
NewNodeIds(resp) ==
    IF Has(resp, "new_node_ids") THEN resp.new_node_ids ELSE <<>>

\* Faulty variant of CountMismatch: only a shortfall is noticed.
CountMismatchFewerOnly(ids, requested) ==
    Len(ids) < Len(requested)

\* if (ids.length !== texts.length) throw ...; the same test is made again on
\* createdIds.length and flatNodes.length.
CountMismatch(ids, requested) ==
    Len(ids) # Len(requested)

\* Faulty variant of NeedsRestructure: the move phase always runs.
NeedsRestructureAlways(restructureOps) ==
    TRUE

\* createListHierarchically, phase 4: if (restructureOps.length > 0).
NeedsRestructure(restructureOps) ==
    Len(restructureOps) > 0

\* What an operation does with the response of its docEdit.  (The check
\* `if (!parentId)' of createListHierarchically cannot fire once the count
\* of created ids has been checked, and is left out.)
AfterEdit(call, phase, loc, resp) ==
    CASE call.op \in {"addItems", "addSubItems"} ->
           IF CountMismatch(NewNodeIds(resp), call.arg.texts)
           THEN Throw("Inserted fewer items")
           ELSE Return([ids |-> NewNodeIds(resp)])
      [] call.op = "moveItem" -> Return("void")
      [] call.op \in {"deleteItems", "checkItems"} -> Return(Len(call.arg.nodeIds))
      [] call.op = "editItems" -> Return(Len(call.arg.edits))
      [] call.op = "clearList" -> Return(Len(loc.changes))
      [] call.op = "restructureItems" -> Return(Len(call.arg.operations))
      [] call.op = "createListHierarchically" /\ phase = "edit" ->
           IF CountMismatch(NewNodeIds(resp), loc.flatNodes)
           THEN Throw("Inserted fewer items")
           ELSE LET ops == RestructureOps(loc.flatNodes, NewNodeIds(resp))
                IN  IF NeedsRestructure(ops)
                    THEN Goto("read2", [changes |-> <<>>, flatNodes |-> loc.flatNodes,
                                        createdIds |-> NewNodeIds(resp),
                                        restructureOps |-> ops])
                    ELSE Return([rootNodes |-> RootNodeIds(loc.flatNodes, NewNodeIds(resp))])
      [] call.op = "createListHierarchically" /\ phase = "edit2" ->
           Return([rootNodes |-> RootNodeIds(loc.flatNodes, loc.createdIds)])

(***************************************************************************)
(* Actions of PerDocMutex.run.                                             *)
(***************************************************************************)
\* A caller calls run(key, fn); fn is any operation that later fulfils
\* (fails = FALSE) or rejects (fails = TRUE).
Run(key, fails) ==
    /\ Len(calls) < MaxRuns
    /\ MutexRun(Len(calls) + 1, [op |-> "fn", key |-> key, arg |-> fails])
    /\ UNCHANGED storeVars

\* The promise machinery settles prev.then(() => next) of call i.
ThenSettle(i) ==
    /\ prev[i] # NoPromise
    /\ ThenP(i) \notin fulfilled
    /\ ThenFulfils(prev[i], i, fulfilled)
    /\ fulfilled' = fulfilled \cup {ThenP(i)}
    /\ UNCHANGED <<callVars, locks, prev, storeVars>>

\* `await prev' resumes and fn() is called.
AwaitPrev(i) ==
    /\ pc[i] = "awaitPrev"
    /\ AwaitResumes(prev[i], fulfilled)
    /\ LET e == Entry(calls[i])
       IN  /\ pc' = [pc EXCEPT ![i] = e.pc]
           /\ local' = [local EXCEPT ![i] = e.local]
           /\ result' = [result EXCEPT ![i] = e.result]
    /\ UNCHANGED <<calls, mutexVars, storeVars>>

\* The operation passed to run settles: it returns or throws.
FnSettle(i) ==
    /\ pc[i] = "running"
    /\ calls[i].op = "fn"
    /\ pc' = [pc EXCEPT ![i] = "settled"]
    /\ result' = [result EXCEPT ![i] =
                    IF calls[i].arg THEN Err("fn failed") ELSE Ok(i)]
    /\ UNCHANGED <<calls, local, mutexVars, storeVars>>

\* The finally block of run, then run's own promise settles as fn did.
Finally(i) ==
    /\ pc[i] = "settled"
    /\ fulfilled' = IF Releases(result[i])
                    THEN fulfilled \cup {NextP(i)}
                    ELSE fulfilled
    /\ locks' = IF CleanupDeletes(locks, calls[i].key, i)
                THEN [locks EXCEPT ![calls[i].key] = NoPromise]
                ELSE locks
    /\ pc' = [pc EXCEPT ![i] = "done"]
    /\ UNCHANGED <<calls, result, local, prev, storeVars>>


(***************************************************************************)
(* Actions of DynalistService.                                             *)
(***************************************************************************)
\* The calls a caller may make on the service.
Item(text) == [text |-> text]
ItemAt(text, position) == [text |-> text, opts |-> [position |-> position]]

Requests ==
    { [op |-> "addItems", key |-> "d1",
       arg |-> [texts |-> <<ItemAt("x", "bottom"), Item("y")>>]],
      [op |-> "addItems", key |-> "d1", arg |-> [texts |-> <<>>]],
      [op |-> "addSubItems", key |-> "d1",
       arg |-> [parentNodeId |-> 1, texts |-> <<Item("x"), ItemAt("y", "bottom")>>]],
      [op |-> "addSubItems", key |-> "d1",
       arg |-> [parentNodeId |-> 9, texts |-> <<Item("x")>>]],
      [op |-> "moveItem", key |-> "d1",
       arg |-> [nodeId |-> 3, target |-> [parent |-> Root, position |-> Top]]],
      [op |-> "deleteItems", key |-> "d1", arg |-> [nodeIds |-> <<1>>]],
      [op |-> "checkItems", key |-> "d1", arg |-> [nodeIds |-> <<1>>, checked |-> TRUE]],
      [op |-> "editItems", key |-> "d1",
       arg |-> [edits |-> <<[nodeId |-> 3, changes |-> [content |-> "z"]]>>]],
      [op |-> "clearList", key |-> "d1", arg |-> <<>>],
      [op |-> "restructureItems", key |-> "d1",
       arg |-> [operations |-> <<[nodeId |-> 3, newIndex |-> 0]>>]],
      [op |-> "createListHierarchically", key |-> "d1",
       arg |-> [tree |-> <<[content |-> "A",
                            children |-> <<[content |-> "B"], [content |-> "C"]>>],
                           [content |-> "D"]>>]],
      [op |-> "getItems", key |-> "d1", arg |-> <<>>],
      [op |-> "addItems", key |-> "d2", arg |-> [texts |-> <<ItemAt("t", "top")>>]] }

\* addItems and addSubItems return before run() when given no items.
ReturnsBeforeRun(call) ==
    call.op \in {"addItems", "addSubItems"} /\ Len(call.arg.texts) = 0

\* A caller calls one of the operations that run under the mutex.
CallMutating(call) ==
    /\ Len(calls) < MaxOps
    /\ UsesMutex(call)
    /\ IF ReturnsBeforeRun(call)
       THEN /\ calls' = Append(calls, call)
            /\ pc' = Append(pc, "done")
            /\ result' = Append(result, Ok([ids |-> <<>>]))
            /\ local' = Append(local, NoLocal)
            /\ prev' = Append(prev, NoPromise)
            /\ UNCHANGED <<locks, fulfilled>>
       ELSE MutexRun(Len(calls) + 1, call)
    /\ UNCHANGED storeVars

\* A caller calls getItems, which issues its docRead without the mutex.
CallRead(call) ==
    /\ Len(calls) < MaxOps
    /\ ~UsesMutex(call)
    /\ calls' = Append(calls, call)
    /\ pc' = Append(pc, "read")
    /\ result' = Append(result, NoResult)
    /\ local' = Append(local, NoLocal)
    /\ prev' = Append(prev, NoPromise)
    /\ UNCHANGED <<locks, fulfilled, storeVars>>

LogEntry(i, api, changes) ==
    [call |-> i, api |-> api, file_id |-> calls[i].key, changes |-> changes]

\* The store serves the docRead of call i and the call goes on to its next
\* store call (or settles).
DocRead(i) ==
    /\ pc[i] \in {"read", "read2"}
    /\ LET step == AfterRead(calls[i], pc[i], local[i], docRead(docs[calls[i].key]))
       IN  /\ pc' = [pc EXCEPT ![i] = step.pc]
           /\ local' = [local EXCEPT ![i] = step.local]
           /\ result' = [result EXCEPT ![i] = step.result]
    /\ log' = Append(log, LogEntry(i, "docRead", <<>>))
    /\ UNCHANGED <<calls, mutexVars, docs, nextId, files>>

\* The store applies the docEdit batch of call i and the call goes on.
DocEdit(i) ==
    /\ pc[i] \in {"edit", "edit2"}
    /\ LET key == calls[i].key
           resp == docEdit(docs[key], nextId[key], local[i].changes)
           step == AfterEdit(calls[i], pc[i], local[i], resp)
       IN  /\ docs' = [docs EXCEPT ![key] = resp.nodes]
           /\ nextId' = [nextId EXCEPT ![key] = resp.nextId]
           /\ pc' = [pc EXCEPT ![i] = step.pc]
           /\ local' = [local EXCEPT ![i] = step.local]
           /\ result' = [result EXCEPT ![i] = step.result]
    /\ log' = Append(log, LogEntry(i, "docEdit", local[i].changes))
    /\ UNCHANGED <<calls, mutexVars, files>>

InitMutex ==
    /\ calls = <<>>
    /\ pc = <<>>
    /\ result = <<>>
    /\ local = <<>>
    /\ locks = [k \in Keys \cup FolderKeys |-> NoPromise]
    /\ prev = <<>>
    /\ fulfilled = {}

InitStore ==
    /\ docs = [k \in Keys |-> InitialDoc]
    /\ nextId = [k \in Keys |-> InitialNextId]
    /\ files = <<>>
    /\ log = <<>>

Init == InitMutex /\ InitStore

MutexNext ==
    \/ \E key \in Keys, fails \in BOOLEAN : Run(key, fails)
    \/ \E i \in Calls : ThenSettle(i)
    \/ \E i \in Calls : AwaitPrev(i)
    \/ \E i \in Calls : FnSettle(i)
    \/ \E i \in Calls : Finally(i)

MutexSpec == Init /\ [][MutexNext]_vars

Next ==
    \/ \E call \in Requests : CallMutating(call)
    \/ \E call \in Requests : CallRead(call)
    \/ \E i \in Calls : ThenSettle(i)
    \/ \E i \in Calls : AwaitPrev(i)
    \/ \E i \in Calls : DocRead(i)
    \/ \E i \in Calls : DocEdit(i)
    \/ \E i \in Calls : Finally(i)

Spec == Init /\ [][Next]_vars

\* The event loop runs every continuation that is ready, and every fn settles.
MutexLive ==
    /\ MutexSpec
    /\ \A i \in 1..MaxRuns :
         /\ WF_vars(i \in Calls /\ ThenSettle(i))
         /\ WF_vars(i \in Calls /\ AwaitPrev(i))
         /\ WF_vars(i \in Calls /\ FnSettle(i))
         /\ WF_vars(i \in Calls /\ Finally(i))

(***************************************************************************)
(* One operation at a time on a document drawn at the start: the planning  *)
(* of every operation over a range of documents and arguments.             *)
(***************************************************************************)
\* Bounds of the inputs.
MaxBatch == 2       \* items of an add batch, operations of a restructure batch
MaxTreeNodes == 4   \* nodes of the tree given to createListHierarchically

\* An id no document has (the tests use 'non-existent-id').
NoSuchId == 99

\* A document with three top-level items and a node two levels down.
WideDoc ==
    (Root :> Node("", FALSE, <<1, 2, 3>>)) @@ (1 :> Node("a", FALSE, <<>>))
        @@ (2 :> Node("b", FALSE, <<4, 5>>)) @@ (3 :> Node("c", TRUE, <<>>))
        @@ (4 :> Node("d", FALSE, <<6>>)) @@ (5 :> Node("e", FALSE, <<>>))
        @@ (6 :> Node("f", FALSE, <<>>))

\* A document that has no item yet.
EmptyDoc == (Root :> Node("", FALSE, <<>>))

\* A document one of whose children lists names a node it does not have, and
\* with checked and unchecked items at both levels.
DanglingDoc ==
    (Root :> Node("", FALSE, <<1, NoSuchId, 2, 3>>)) @@ (1 :> Node("a", TRUE, <<4>>))
        @@ (2 :> Node("b", FALSE, <<5, NoSuchId, 6>>)) @@ (3 :> Node("c", TRUE, <<>>))
        @@ (4 :> Node("d", FALSE, <<>>)) @@ (5 :> Node("e", TRUE, <<7>>))
        @@ (6 :> Node("f", FALSE, <<>>)) @@ (7 :> Node("g", FALSE, <<>>))

\* A response that has no root node.
RootlessDoc == (1 :> Node("a", FALSE, <<2>>)) @@ (2 :> Node("b", FALSE, <<>>))

\* A response with a node that no children list names.
OrphanDoc ==
    (Root :> Node("", FALSE, <<1>>)) @@ (1 :> Node("a", FALSE, <<>>))
        @@ (2 :> Node("b", TRUE, <<>>))

SoloDocs == {EmptyDoc, InitialDoc, WideDoc, DanglingDoc, RootlessDoc, OrphanDoc}

\* The id the store hands out first: one past the ids the document has.
FirstFreeId(d) == CHOOSE n \in 1..NoSuchId : \A id \in DOMAIN d : id < n /\ (n - 1) \in DOMAIN d

\* The ids the arguments are drawn from: every node of the documents, and one
\* that none of them has.
SoloIds == (DOMAIN DanglingDoc \ {Root}) \cup {NoSuchId}

Name(k) == <<"n1", "n2", "n3", "n4", "n5", "n6", "n7", "n8">>[k]

\* Batches of 1..MaxBatch items, each with position 'top', 'bottom' or none.
Positioned(text, position) ==
    IF position = "none" THEN Item(text) ELSE ItemAt(text, position)

Batches ==
    UNION {{[k \in 1..n |-> Positioned(Name(k), p[k])] :
              p \in [1..n -> {"none", "top", "bottom"}]} : n \in 1..MaxBatch}

\* The move targets: a placement, with or without an explicit parent.
Placements ==
    {[position |-> Top], [position |-> Bottom], << >>}
        \cup {[position |-> At(n)] : n \in -1..3}
        \cup {[before |-> y] : y \in SoloIds} \cup {[after |-> y] : y \in SoloIds}

MoveTargets ==
    Placements \cup {[parent |-> q] @@ t : q \in {Root} \cup SoloIds, t \in Placements}

\* The restructure batches: 0..MaxBatch operations on known and unknown ids.
RestructureOperations ==
    {[nodeId |-> x, newIndex |-> 0] : x \in {1, 3, NoSuchId}}
        \cup {[nodeId |-> 3, newIndex |-> 2]}
        \cup {[nodeId |-> x, newParent |-> q, newIndex |-> 0] :
                 x \in {1, 3, NoSuchId}, q \in {2, NoSuchId}}

RestructureBatches ==
    UNION {[1..n -> RestructureOperations] : n \in 0..MaxBatch}

\* The input trees of 1..MaxTreeNodes nodes.  A tree is given by the parent of
\* each node, the nodes numbered in the order the input lists them (0: none).
ParentVectors(n) ==
    {p \in [1..n -> 0..(n - 1)] :
        \A i \in 1..n :
            /\ p[i] < i
            /\ \A j \in 1..n : (p[i] < j /\ j < i) => p[j] >= p[i]}

ChildrenIn(p, i) == SelectSeq([j \in DOMAIN p |-> j], LAMBDA j : p[j] = i)

RECURSIVE TreeOf(_, _)
TreeOf(p, i) ==
    LET kids == ChildrenIn(p, i)
    IN  IF kids = <<>> THEN [content |-> Name(i)]
        ELSE [content |-> Name(i), children |-> [k \in DOMAIN kids |-> TreeOf(p, kids[k])]]

Forest(p) == [k \in DOMAIN ChildrenIn(p, 0) |-> TreeOf(p, ChildrenIn(p, 0)[k])]

\* The empty input, and a node whose children list is present and empty.
ChildlessTrees == {<<>>, <<[content |-> Name(1), children |-> <<>>]>>}

Trees ==
    ChildlessTrees \cup UNION {{Forest(p) : p \in ParentVectors(n)} : n \in 1..MaxTreeNodes}

\* The id lists given to deleteItems, checkItems and editItems.
IdLists == {<<>>, <<1>>, <<NoSuchId>>, <<1, NoSuchId>>, <<2, 1>>}

SoloRequests ==
    {[op |-> "addItems", key |-> "d1", arg |-> [texts |-> b]] : b \in Batches}
    \cup {[op |-> "addSubItems", key |-> "d1", arg |-> [parentNodeId |-> q, texts |-> b]] :
             q \in SoloIds, b \in Batches}
    \cup {[op |-> "moveItem", key |-> "d1", arg |-> [nodeId |-> x, target |-> t]] :
             x \in SoloIds, t \in MoveTargets}
    \cup {[op |-> "restructureItems", key |-> "d1", arg |-> [operations |-> b]] :
             b \in RestructureBatches}
    \cup {[op |-> "createListHierarchically", key |-> "d1", arg |-> [tree |-> t]] :
             t \in Trees}
    \cup {[op |-> "getItemAncestors", key |-> "d1", arg |-> [nodeId |-> x]] :
             x \in {Root} \cup SoloIds}
    \cup {[op |-> "getItemDescendants", key |-> "d1", arg |-> [nodeId |-> x]] :
             x \in {Root} \cup SoloIds}
    \cup {[op |-> "getItemChildren", key |-> "d1", arg |-> [parentNodeId |-> x]] :
             x \in {Root} \cup SoloIds}
    \cup {[op |-> "getItemsWithTree", key |-> "d1", arg |-> << >>],
          [op |-> "clearList", key |-> "d1", arg |-> << >>]}
    \cup {[op |-> "deleteItems", key |-> "d1", arg |-> [nodeIds |-> ids]] : ids \in IdLists}
    \cup {[op |-> "checkItems", key |-> "d1", arg |-> [nodeIds |-> ids, checked |-> TRUE]] :
             ids \in IdLists}
    \cup {[op |-> "editItems", key |-> "d1",
           arg |-> [edits |-> [n \in DOMAIN ids |->
                                  [nodeId |-> ids[n], changes |-> [content |-> "z"]]]]] :
             ids \in IdLists}

\* The one call of the behaviour is made.
SoloMutating ==
    /\ calls = <<>>
    /\ \E call \in SoloRequests : CallMutating(call)

SoloRead ==
    /\ calls = <<>>
    /\ \E call \in SoloRequests : CallRead(call)

\* The store answers the docEdit of call i with a number of new_node_ids other
\* than the number of changes: it applies the first n changes only, or it
\* applies them all and reports one id more.
DocEditMiscount(i, n) ==
    /\ pc[i] \in {"edit", "edit2"}
    /\ n \in 0..(Len(local[i].changes) + 1) \ {Len(local[i].changes)}
    /\ LET key == calls[i].key
           done == docEdit(docs[key], nextId[key],
                           SubSeq(local[i].changes, 1, Min(n, Len(local[i].changes))))
           resp == IF n > Len(local[i].changes)
                   THEN [done EXCEPT !.new_node_ids = Append(@, done.nextId)]
                   ELSE done
           step == AfterEdit(calls[i], pc[i], local[i], resp)
       IN  /\ docs' = [docs EXCEPT ![key] = resp.nodes]
           /\ nextId' = [nextId EXCEPT ![key] = resp.nextId]
           /\ pc' = [pc EXCEPT ![i] = step.pc]
           /\ local' = [local EXCEPT ![i] = step.local]
           /\ result' = [result EXCEPT ![i] = step.result]
           /\ log' = Append(log, LogEntry(i, "docEdit", local[i].changes)
                                    @@ [returned |-> Len(resp.new_node_ids)])
    /\ UNCHANGED <<calls, mutexVars, files>>

\* The store applies the docEdit batch of call i and answers without the
\* field new_node_ids.
DocEditNoIds(i) ==
    /\ pc[i] \in {"edit", "edit2"}
    /\ LET key == calls[i].key
           done == docEdit(docs[key], nextId[key], local[i].changes)
           resp == [nodes |-> done.nodes, nextId |-> done.nextId, results |-> done.results]
           step == AfterEdit(calls[i], pc[i], local[i], resp)
       IN  /\ docs' = [docs EXCEPT ![key] = resp.nodes]
           /\ nextId' = [nextId EXCEPT ![key] = resp.nextId]
           /\ pc' = [pc EXCEPT ![i] = step.pc]
           /\ local' = [local EXCEPT ![i] = step.local]
           /\ result' = [result EXCEPT ![i] = step.result]
           /\ log' = Append(log, LogEntry(i, "docEdit", local[i].changes)
                                    @@ [returned |-> 0, missing |-> TRUE])
    /\ UNCHANGED <<calls, mutexVars, files>>

\* client.docRead or client.docEdit of call i throws: the request reached no
\* store, or every retry failed; the document is left as it was and the
\* operation, which catches nothing, throws the same error.
StoreCallFails(i) ==
    /\ pc[i] \in {"read", "edit", "read2", "edit2"}
    /\ pc' = [pc EXCEPT ![i] = IF UsesMutex(calls[i]) THEN "settled" ELSE "done"]
    /\ local' = [local EXCEPT ![i] = NoLocal]
    /\ result' = [result EXCEPT ![i] = Err("Request failed")]
    /\ log' = Append(log,
                     LogEntry(i, IF pc[i] \in {"read", "read2"} THEN "docRead" ELSE "docEdit",
                              local[i].changes) @@ [failed |-> TRUE])
    /\ UNCHANGED <<calls, mutexVars, docs, nextId, files>>

SoloInit ==
    /\ InitMutex
    /\ \E d \in SoloDocs :
          /\ docs = [k \in Keys |-> d]
          /\ nextId = [k \in Keys |-> FirstFreeId(d)]
    /\ files = <<>>
    /\ log = <<>>

SoloNext ==
    \/ SoloMutating
    \/ SoloRead
    \/ \E i \in Calls : ThenSettle(i)
    \/ \E i \in Calls : AwaitPrev(i)
    \/ \E i \in Calls : DocRead(i)
    \/ \E i \in Calls : DocEdit(i)
    \/ \E i \in Calls : Finally(i)

SoloSpec == SoloInit /\ [][SoloNext]_vars

\* The same, with a store that may miscount.
FaultNext ==
    \/ SoloNext
    \/ \E i \in Calls : \E n \in 0..(MaxTreeNodes + 1) : DocEditMiscount(i, n)
    \/ \E i \in Calls : DocEditNoIds(i)
    \/ \E i \in Calls : StoreCallFails(i)

FaultSpec == SoloInit /\ [][FaultNext]_vars

(***************************************************************************)
(* createList against the store's file list: one call per behaviour.      *)
(***************************************************************************)
File(id, title) == [id |-> id, title |-> title, type |-> "document"]

Letters(ch, n) == [ch |-> ch, n |-> n]

\* The names given: empty, blank, short, padded, with an inner blank, of 200
\* and of 201 characters (as one run and as three), and 200 blanks before a
\* letter.
Names ==
    { <<>>,
      <<Letters(" ", 1)>>,
      <<Letters("a", 1)>>,
      <<Letters(" ", 1), Letters("a", 1), Letters(" ", 1)>>,
      <<Letters("a", 1), Letters(" ", 1), Letters("a", 1)>>,
      <<Letters("a", 200)>>,
      <<Letters(" ", 1), Letters("a", 200), Letters(" ", 1)>>,
      <<Letters("a", 201)>>,
      <<Letters("a", 199), Letters(" ", 1), Letters("a", 1)>>,
      <<Letters(" ", 200), Letters("a", 1)>> }

ListRequests ==
    {[op |-> "createList", key |-> parentId, arg |-> [name |-> name]] :
        parentId \in FolderKeys, name \in Names}

\* The file lists the store may hold when the call is made.
ListFiles == {<<>>, <<File(1, <<Letters("a", 1)>>)>>}

\* What client.fileEdit may do other than create: throw (the transport
\* failed, or the response's _code was not ok), or return a response without
\* created ids, with or without a message.
FileEditFailures ==
    {[thrown |-> m] : m \in {"LockFail", "TooManyRequests", "TOOMANYREQUESTS", "Too many", ""}}
        \cup {[_code |-> "Ok", _msg |-> m, created |-> <<>>] : m \in {"Blocked", "Invalid"}}
        \cup {[_code |-> "Ok"]}

NoFailure == [_code |-> "Ok"] @@ [none |-> TRUE]

\* file/edit: each create change adds a document at its index (appended when
\* the index is past the end) and the response lists the new ids.
RECURSIVE fileEdit(_, _)
fileEdit(st, changes) ==
    IF changes = <<>> THEN st
    ELSE LET ch == Head(changes)
             id == Len(st.files) + 1
         IN  fileEdit([files |-> InsertAt(st.files, ch.index, File(id, ch.title)),
                       created |-> Append(st.created, id)],
                      SubSeq(changes, 2, Len(changes)))

FileLogEntry(i, api, changes, resp) ==
    [call |-> i, api |-> api, changes |-> changes, response |-> resp]

\* The one createList of the behaviour is called.
ListCall ==
    /\ calls = <<>>
    /\ \E call \in ListRequests : CallMutating(call)

\* client.fileList of call i returns the file list, or throws.
FileList(i, fails) ==
    /\ pc[i] = "fileList"
    /\ LET resp == IF fails THEN [thrown |-> "Invalid"] ELSE [files |-> files]
           step == AfterFileList(calls[i], local[i], resp)
       IN  /\ pc' = [pc EXCEPT ![i] = step.pc]
           /\ local' = [local EXCEPT ![i] = step.local]
           /\ result' = [result EXCEPT ![i] = step.result]
           /\ log' = Append(log, FileLogEntry(i, "fileList", <<>>, resp))
    /\ UNCHANGED <<calls, mutexVars, docs, nextId, files>>

\* client.fileEdit of call i: the store creates the document (failure is
\* NoFailure), or the attempt fails as failure says and creates nothing.
FileEdit(i, failure) ==
    /\ pc[i] = "fileEdit"
    /\ LET done == fileEdit([files |-> files, created |-> <<>>], local[i].changes)
           resp == IF failure = NoFailure
                   THEN [_code |-> "Ok", created |-> done.created]
                   ELSE failure
           step == AfterFileEdit(calls[i], local[i], resp)
       IN  /\ files' = IF failure = NoFailure THEN done.files ELSE files
           /\ pc' = [pc EXCEPT ![i] = step.pc]
           /\ local' = [local EXCEPT ![i] = step.local]
           /\ result' = [result EXCEPT ![i] = step.result]
           /\ log' = Append(log, FileLogEntry(i, "fileEdit", local[i].changes, resp))
    /\ UNCHANGED <<calls, mutexVars, docs, nextId>>

\* The backoff timer of call i fires.
Backoff(i) ==
    /\ pc[i] = "backoff"
    /\ LET step == AfterBackoff(calls[i], local[i])
       IN  /\ pc' = [pc EXCEPT ![i] = step.pc]
           /\ local' = [local EXCEPT ![i] = step.local]
           /\ result' = [result EXCEPT ![i] = step.result]
    /\ UNCHANGED <<calls, mutexVars, storeVars>>

ListInit ==
    /\ InitMutex
    /\ docs = [k \in Keys |-> InitialDoc]
    /\ nextId = [k \in Keys |-> InitialNextId]
    /\ files \in ListFiles
    /\ log = <<>>

ListNext ==
    \/ ListCall
    \/ \E i \in Calls : ThenSettle(i)
    \/ \E i \in Calls : AwaitPrev(i)
    \/ \E i \in Calls, fails \in BOOLEAN : FileList(i, fails)
    \/ \E i \in Calls, failure \in FileEditFailures \cup {NoFailure} : FileEdit(i, failure)
    \/ \E i \in Calls : Backoff(i)
    \/ \E i \in Calls : Finally(i)

ListSpec == ListInit /\ [][ListNext]_vars

(***************************************************************************)
(* Concurrent createList calls, under the root folder given as 'root' or   *)
(* as the empty parentId; the store may refuse a create with `LockFail'.   *)
(***************************************************************************)
FolderRequests ==
    {[op |-> "createList", key |-> parentId, arg |-> [name |-> <<Letters("a", 1)>>]] :
        parentId \in FolderKeys}

FolderCall == \E call \in FolderRequests : CallMutating(call)

FolderNext ==
    \/ FolderCall
    \/ \E i \in Calls : ThenSettle(i)
    \/ \E i \in Calls : AwaitPrev(i)
    \/ \E i \in Calls : FileList(i, FALSE)
    \/ \E i \in Calls, failure \in {[thrown |-> "LockFail"], NoFailure} : FileEdit(i, failure)
    \/ \E i \in Calls : Backoff(i)
    \/ \E i \in Calls : Finally(i)

FolderSpec == ListInit /\ [][FolderNext]_vars

(***************************************************************************)
(* DynalistClient.post: one call against an HTTP endpoint that may reject, *)
(* answer with any status, or answer with any _code.  A message is the     *)
(* sequence of its characters.                                             *)
(***************************************************************************)
MaxRetriesLimit == 2   \* the largest maxRetries a client is built with

\* String.prototype.includes
Includes(text, pattern) ==
    \E k \in 0..(Len(text) - Len(pattern)) :
        \A n \in DOMAIN pattern : text[k + n] = pattern[n]

RECURSIVE TrimBlanks(_)
TrimBlanks(text) ==
    IF text # <<>> /\ text[1] \in Whitespace THEN TrimBlanks(SubSeq(text, 2, Len(text)))
    ELSE IF text # <<>> /\ text[Len(text)] \in Whitespace
    THEN TrimBlanks(SubSeq(text, 1, Len(text) - 1))
    ELSE text

\* The decimal digits of an HTTP status.
Digits(status) ==
    CASE status = 200 -> Text("200")
      [] status = 400 -> Text("400")
      [] status = 429 -> Text("429")
      [] status = 500 -> Text("500")
      [] status = 599 -> Text("599")

\* isRetriableError: the message names a network failure or an abort.
isRetriableError(message) ==
    \E marker \in {"fetch failed", "network error", "ECONNRESET", "ETIMEDOUT", "AbortError"} :
        Includes(message, Text(marker))

\* res.status === 429 || (res.status >= 500 && res.status <= 599)
RetriedStatus(status) == status = 429 \/ (status >= 500 /\ status <= 599)

\* Response.ok
StatusOk(status) == status >= 200 /\ status <= 299

\* `HTTP ${res.status} ${res.statusText} ${text}`.trim()
HttpErrorMessage(res) ==
    TrimBlanks(Text("HTTP ") \o Digits(res.status) \o Text(" ") \o Text(res.statusText)
                  \o Text(" ") \o Text(res.text))

\* assertOk: String(resp._code || "").toLowerCase() === "ok"
CodeOk(json) ==
    LET code == IF Has(json, "_code") THEN Text(json._code) ELSE <<>>
    IN  [n \in DOMAIN code |-> ToLower(code[n])] = Text("ok")

\* assertOk: `[Dynalist API] ${code}: ${msg}`
ApiErrorMessage(json) ==
    Text("[Dynalist API] ")
        \o Text(IF Has(json, "_code") /\ json._code # "" THEN json._code ELSE "Unknown")
        \o Text(": ")
        \o Text(IF Has(json, "_msg") /\ json._msg # "" THEN json._msg ELSE "Unknown error")

\* One turn of the loop of post, given what fetch did: it rejected (outcome
\* has `rejects'), or it resolved with a response.
AfterFetch(call, loc, outcome) ==
    LET caught(message) ==
            IF loc.attempt < call.arg.maxRetries /\ isRetriableError(message)
            THEN Goto("delay", [loc EXCEPT !.lastError = message])
            ELSE Throw(message)
    IN  IF Has(outcome, "rejects") THEN caught(Text(outcome.rejects))
        ELSE IF RetriedStatus(outcome.status)
        THEN Goto("delay", [loc EXCEPT !.lastError = Text("HTTP ") \o Digits(outcome.status)])
        ELSE IF ~StatusOk(outcome.status) THEN caught(HttpErrorMessage(outcome))
        ELSE IF ~CodeOk(outcome.json) THEN caught(ApiErrorMessage(outcome.json))
        ELSE Return(outcome.json)

\* The backoff delay is over: attempt++, the loop test, and `throw lastError'.
AfterDelay(call, loc) ==
    IF loc.attempt + 1 <= call.arg.maxRetries
    THEN Goto("fetch", [loc EXCEPT !.attempt = @ + 1])
    ELSE Throw(loc.lastError)

\* What fetch may do.
FetchOutcomes ==
    {[rejects |-> m] : m \in {"fetch failed", "ECONNRESET", "socket hang up"}}
        \cup {[status |-> st, statusText |-> "", text |-> ""] : st \in {429, 500, 599}}
        \cup {[status |-> 400, statusText |-> "Bad Request", text |-> t] :
                 t \in {"", "bad token", "upstream ETIMEDOUT"}}
        \cup {[status |-> 200, json |-> j] :
                 j \in {[_code |-> "Ok"], [_code |-> "OK"], [_msg |-> "bad token"],
                        [_code |-> "NotFound", _msg |-> "bad token"],
                        [_code |-> "Invalid", _msg |-> "network error"]}}

\* post is called on a client built with maxRetries.
PostCall(maxRetries) ==
    /\ calls = <<>>
    /\ calls' = <<[op |-> "post", key |-> "d1", arg |-> [maxRetries |-> maxRetries]]>>
    /\ pc' = <<"fetch">>
    /\ result' = <<NoResult>>
    /\ local' = <<[attempt |-> 0, lastError |-> <<>>, changes |-> <<>>]>>
    /\ prev' = <<NoPromise>>
    /\ UNCHANGED <<locks, fulfilled, storeVars>>

\* fetch of call i settles as outcome says, and post goes on to its return,
\* its throw or its backoff delay.
Fetch(i, outcome) ==
    /\ pc[i] = "fetch"
    /\ LET step == AfterFetch(calls[i], local[i], outcome)
       IN  /\ pc' = [pc EXCEPT ![i] = IF step.pc = "settled" THEN "done" ELSE step.pc]
           /\ local' = [local EXCEPT ![i] = step.local]
           /\ result' = [result EXCEPT ![i] = step.result]
    /\ log' = Append(log, FileLogEntry(i, "fetch", <<>>, outcome))
    /\ UNCHANGED <<calls, mutexVars, docs, nextId, files>>

\* The backoff delay of call i is over.
Delay(i) ==
    /\ pc[i] = "delay"
    /\ LET step == AfterDelay(calls[i], local[i])
       IN  /\ pc' = [pc EXCEPT ![i] = IF step.pc = "settled" THEN "done" ELSE step.pc]
           /\ local' = [local EXCEPT ![i] = step.local]
           /\ result' = [result EXCEPT ![i] = step.result]
    /\ UNCHANGED <<calls, mutexVars, storeVars>>

PostNext ==
    \/ \E maxRetries \in 0..MaxRetriesLimit : PostCall(maxRetries)
    \/ \E i \in Calls, outcome \in FetchOutcomes : Fetch(i, outcome)
    \/ \E i \in Calls : Delay(i)

PostSpec == Init /\ [][PostNext]_vars

(***************************************************************************)
(* Properties of PerDocMutex.run (checked under MutexSpec / MutexLive).    *)
(***************************************************************************)
SameKey(i, j) == UsesMutex(calls[i]) /\ UsesMutex(calls[j]) /\ calls[i].key = calls[j].key

\* fn of call i has been called and has not settled yet.
Executing(i) ==
    pc[i] \in {"running", "read", "edit", "read2", "edit2", "fileList", "fileEdit", "backoff"}

\* fn of call i has settled (returned or thrown).
Settled(i) == pc[i] \in {"settled", "done"}

\* The outcome call i's own fn was written to have.
OwnStatus(i) == IF calls[i].arg THEN "error" ELSE "ok"

\* C1: mutual exclusion per key: at no time are two operations submitted
\* under the same key both between the start of fn and fn's settlement.
C1_MutualExclusion ==
    \A i, j \in Calls :
        (i # j /\ SameKey(i, j) /\ Executing(i)) => ~Executing(j)

\* C1 witness: one operation executes while another of the same key waits
\* for it and a third one runs under the other key.
C1_Witness ==
    \E i, j, k \in Calls :
        /\ i < j /\ SameKey(i, j) /\ ~SameKey(i, k)
        /\ Executing(i) /\ pc[j] = "awaitPrev" /\ Executing(k)

\* C2: FIFO admission per key: whenever the fn of a call starts, every call
\* made earlier under the same key has already started and settled.
C2_FifoAdmission ==
    [][\A j \in Calls :
         (pc[j] = "awaitPrev" /\ pc'[j] # "awaitPrev")
            => \A i \in 1..(j - 1) : SameKey(i, j) => Settled(i)]_vars

\* C2 witness: three calls under one key, the first settled with an error,
\* the second executing after it, the third still waiting.
C2_Witness ==
    \E i, j, k \in Calls :
        /\ i < j /\ j < k /\ SameKey(i, j) /\ SameKey(j, k)
        /\ pc[i] = "done" /\ result[i].status = "error"
        /\ Executing(j) /\ pc[k] = "awaitPrev"

\* Call j waits to be admitted behind call i of its key, whose fn has thrown.
WaitsBehindFailed(i, j) ==
    IF i < j /\ j \in Calls
    THEN /\ SameKey(i, j)
         /\ Settled(i) /\ result[i].status = "error"
         /\ pc[j] = "awaitPrev"
    ELSE FALSE

\* Call j has finished with the outcome of its own fn.
RanToOwnOutcome(j) ==
    IF j \in Calls
    THEN pc[j] = "done" /\ result[j].status = OwnStatus(j)
    ELSE FALSE

\* Call j has been made and waits to be admitted.
Waiting(j) == IF j \in Calls THEN pc[j] = "awaitPrev" ELSE FALSE

\* Call j has been admitted: its fn has been called.
Admitted(j) == IF j \in Calls THEN pc[j] # "awaitPrev" ELSE FALSE

\* C5: a failing operation does not block its key: every caller gets the
\* outcome of its own fn and no other, a finished call has released the key,
\* and a call waiting behind a failed one is still run to its own outcome.
C5_FailureDoesNotBlock ==
    /\ [](\A i \in Calls :
            pc[i] = "done" =>
                /\ result[i].status = OwnStatus(i)
                /\ NextP(i) \in fulfilled)
    /\ \A i, j \in 1..MaxRuns :
         WaitsBehindFailed(i, j) ~> RanToOwnOutcome(j)

\* C5 witness: a call failed, and a later call of the same key that was
\* written to succeed has run and succeeded.
C5_Witness ==
    \E i, j \in Calls :
        /\ i < j /\ SameKey(i, j)
        /\ pc[i] = "done" /\ result[i].status = "error"
        /\ pc[j] = "done" /\ result[j].status = "ok"

\* C6: keys are independent: a call that still waits to be admitted while
\* every earlier call of its own key is over (finished, chain link settled)
\* awaits a promise that is already fulfilled, whatever the calls of other
\* keys are doing: it never waits on another key.
C6_KeysIndependent ==
    \A j \in Calls :
        (/\ pc[j] = "awaitPrev"
         /\ \A i \in 1..(j - 1) :
               SameKey(i, j) => (pc[i] = "done" /\ ThenP(i) \in fulfilled))
        => prev[j] \in fulfilled

\* C6 witness: an operation submitted later under another key executes while
\* an earlier one of the first key executes and a further one waits behind it.
C6_Witness ==
    \E i, j, k \in Calls :
        /\ i < j /\ j < k /\ SameKey(i, j) /\ ~SameKey(i, k)
        /\ Executing(i) /\ pc[j] = "awaitPrev" /\ Executing(k)
        /\ pc[k] = "running"

\* C7: no starvation within a key: every call that waits to be admitted is
\* eventually admitted and its fn run, given that every fn settles.
C7_NoStarvation ==
    \A j \in 1..MaxRuns : Waiting(j) ~> Admitted(j)

\* C7 witness: the last of three calls under one key has been admitted,
\* after a predecessor that failed.
C7_Witness ==
    \E i, j, k \in Calls :
        /\ i < j /\ j < k /\ SameKey(i, j) /\ SameKey(j, k)
        /\ result[j].status = "error" /\ Settled(j)
        /\ Executing(k)

\* C8: bookkeeping cleanup: the key-to-chain map holds an entry only for a
\* key that has an operation in flight or queued.
C8_EntryOnlyWhileInUse ==
    \A k \in Keys :
        locks[k] # NoPromise =>
            \E i \in Calls : calls[i].key = k /\ pc[i] # "done"

(***************************************************************************)
(* Properties of DynalistService (checked under Spec).                     *)
(***************************************************************************)
\* The operations one at a time: call i run from position cur to its
\* settlement with no other call in between.  st = [nodes, nextId, log].
RECURSIVE RunAlone(_, _, _)
RunAlone(st, i, cur) ==
    IF cur.pc \in {"read", "read2"}
    THEN RunAlone([st EXCEPT !.log = Append(@, LogEntry(i, "docRead", <<>>))], i,
                  AfterRead(calls[i], cur.pc, cur.local, docRead(st.nodes)))
    ELSE IF cur.pc \in {"edit", "edit2"}
    THEN LET resp == docEdit(st.nodes, st.nextId, cur.local.changes)
         IN  RunAlone([nodes |-> resp.nodes, nextId |-> resp.nextId,
                       log |-> Append(st.log, LogEntry(i, "docEdit", cur.local.changes))],
                      i, AfterEdit(calls[i], cur.pc, cur.local, resp))
    ELSE [st |-> st, result |-> cur.result]

\* Call i is one of the mutating operations on document key that reach run().
Mutates(i, key) ==
    UsesMutex(calls[i]) /\ ~ReturnsBeforeRun(calls[i]) /\ calls[i].key = key

\* The serial execution, in submission order, of the first n calls' mutating
\* operations on document key: [nodes, nextId, log, results].
RECURSIVE SerialRun(_, _)
SerialRun(key, n) ==
    IF n = 0
    THEN [nodes |-> InitialDoc, nextId |-> InitialNextId, log |-> <<>>, results |-> <<>>]
    ELSE LET before == SerialRun(key, n - 1)
         IN  IF ~Mutates(n, key)
             THEN [before EXCEPT !.results = Append(@, NoResult)]
             ELSE LET run == RunAlone([nodes |-> before.nodes, nextId |-> before.nextId,
                                       log |-> before.log], n, Entry(calls[n]))
                  IN  [nodes |-> run.st.nodes, nextId |-> run.st.nextId,
                       log |-> run.st.log,
                       results |-> Append(before.results, run.result)]

\* The store calls served so far for the mutating operations on document key.
MutatingLog(key) ==
    SelectSeq(log, LAMBDA e : e.file_id = key /\ UsesMutex(calls[e.call]))

IsPrefix(s, t) == Len(s) <= Len(t) /\ s = SubSeq(t, 1, Len(s))

\* C3: serializability per key: at any time the store reads and edits served
\* for the mutating operations on a document are a prefix of those of running
\* the operations one at a time in submission order; once all of them have
\* settled the sequence of store calls, the document and every operation's
\* outcome are those of that serial execution.
C3_SerializablePerKey ==
    \A key \in Keys :
        LET serial == SerialRun(key, Len(calls))
            mine == {i \in Calls : Mutates(i, key)}
        IN  /\ IsPrefix(MutatingLog(key), serial.log)
            /\ \A i \in mine : Settled(i) => result[i] = serial.results[i]
            /\ (\A i \in mine : Settled(i)) =>
                 /\ MutatingLog(key) = serial.log
                 /\ docs[key] = serial.nodes

\* C3 witness: two read-then-write operations in flight on one document: the
\* first has read and not yet written, the second was submitted meanwhile.
C3_Witness ==
    \E i, j \in Calls :
        /\ i < j /\ SameKey(i, j)
        /\ calls[i].op = "addItems" /\ pc[i] = "edit"
        /\ calls[j].op \in {"addSubItems", "moveItem", "createListHierarchically"}
        /\ pc[j] = "awaitPrev"

\* Call i has read the document and has a docEdit still to issue.
InReadWriteWindow(i) ==
    /\ pc[i] \in {"edit", "read2", "edit2"}
    /\ \E n \in DOMAIN log : log[n].call = i /\ log[n].api = "docRead"

\* The step serves a store call of this kind; LastServed is that call.
Serves(api) == Len(log') = Len(log) + 1 /\ log'[Len(log')].api = api
LastServed == log'[Len(log')]

\* C4: no stale read-then-write: every docEdit on a document is issued by the
\* one operation that holds the document's key, and no other operation on that
\* document stands between its own docRead and its last docEdit.
C4_NoStaleReadThenWrite ==
    [][Serves("docEdit") =>
         LET j == LastServed.call
         IN  /\ UsesMutex(calls[j]) /\ prev[j] \in fulfilled /\ NextP(j) \notin fulfilled
             /\ \A i \in Calls \ {j} :
                   calls[i].key = calls[j].key =>
                       ~InReadWriteWindow(i) /\ ~(UsesMutex(calls[i]) /\ Executing(i))]_vars

\* C4 witness: a hierarchy creation stands between its two batches while
\* another mutating operation on the document waits for the key.
C4_Witness ==
    \E i, j \in Calls :
        /\ i < j /\ SameKey(i, j)
        /\ calls[i].op = "createListHierarchically" /\ pc[i] = "edit2"
        /\ InReadWriteWindow(i)
        /\ pc[j] = "awaitPrev"

\* Call c is a hierarchy creation between its insert batch and its move batch.
MidHierarchy(c) ==
    calls[c].op = "createListHierarchically" /\ pc[c] \in {"read2", "edit2"}

\* C9: the intermediate state of two-phase hierarchy creation is never
\* observed: no docRead of another operation on the document is served while
\* a hierarchy creation stands between its insert batch and its move batch.
C9_IntermediateStateNeverObserved ==
    [][Serves("docRead") =>
         \A c \in Calls \ {LastServed.call} :
            calls[c].key = LastServed.file_id => ~MidHierarchy(c)]_vars

\* The parent an add operation inserts under, and whether all its items are
\* added at the bottom.
AddParent(call) == IF call.op = "addItems" THEN Root ELSE call.arg.parentNodeId
AllBottom(call) == \A n \in DOMAIN call.arg.texts : PositionOf(call.arg.texts[n]) = "bottom"
IsBottomAdd(i) ==
    calls[i].op \in {"addItems", "addSubItems"} /\ AllBottom(calls[i])

\* C10: bottom insert: the batch of N inserts an all-bottom addItems or
\* addSubItems emits has the indices priorCount, ..., priorCount+N-1 in input
\* order, priorCount being the parent's child count; the ids it returns are
\* the store's new ids in input order: the n-th id is the node of the n-th
\* item and stands at place priorCount+n-1 among the parent's children.
C10_BottomInsert ==
    \A i \in Calls :
        IsBottomAdd(i) =>
            LET texts == calls[i].arg.texts
                N == Len(texts)
                parent == AddParent(calls[i])
                nodes == docs[calls[i].key]
            IN  /\ pc[i] = "edit" =>
                     /\ Len(local[i].changes) = N
                     /\ \A n \in 1..N :
                          /\ local[i].changes[n].action = "insert"
                          /\ local[i].changes[n].parent_id = parent
                          /\ local[i].changes[n].content = texts[n].text
                          /\ local[i].changes[n].index
                                = Len(nodes[parent].children) + (n - 1)
                /\ (pc[i] = "settled" /\ N > 0) =>
                     (result[i].status = "ok" =>
                        LET ids == result[i].value.ids
                            priorCount == Len(nodes[parent].children) - N
                        IN  /\ Len(ids) = N
                            /\ \A n \in 1..N :
                                 /\ ids[n] = nextId[calls[i].key] - N + (n - 1)
                                 /\ nodes[ids[n]].content = texts[n].text
                                 /\ nodes[parent].children[priorCount + n] = ids[n])

\* C10 witness: an addSubItems of two items under a parent that had a child
\* has settled with two ids, after an earlier addItems of two items.
C10_Witness ==
    \E i, j \in Calls :
        /\ i < j /\ IsBottomAdd(i) /\ IsBottomAdd(j)
        /\ calls[i].op = "addItems" /\ pc[i] = "done" /\ result[i].status = "ok"
        /\ calls[j].op = "addSubItems" /\ pc[j] = "settled"
        /\ result[j].status = "ok" /\ Len(result[j].value.ids) = 2
        /\ Len(docs[calls[j].key][1].children) = 3

(***************************************************************************)
(* Properties of the planning of single operations (checked under SoloSpec *)
(* and, with a store that miscounts, FaultSpec).                           *)
(***************************************************************************)
\* The step is the docEdit of an operation named in ops; Served is its call.
Served == LastServed.call
EditOf(ops) == Serves("docEdit") /\ calls[Served].op \in ops

\* The ids occupy contiguous places of kids, in the order of ids.
Contiguous(kids, ids) ==
    \E start \in 0..(Len(kids) - Len(ids)) :
        \A n \in DOMAIN ids : kids[start + n] = ids[n]

\* C11: contiguous batch: once the store has applied the inserts of an
\* addItems or addSubItems batch whose items are each 'top' or 'bottom', the
\* N new items occupy N contiguous places among the parent's children and
\* appear in request order.
C11_BatchContiguous ==
    [][(EditOf({"addItems", "addSubItems"}) /\ result'[Served].status = "ok") =>
          Contiguous(docs'[calls[Served].key][AddParent(calls[Served])].children,
                     result'[Served].value.ids)]_vars

\* The step is the docEdit of a moveItem that the store can carry out: the
\* node is not moved next to itself nor under itself or one of its descendants.
MoveArg == calls[Served].arg
MoveParent == LastServed.changes[1].parent_id
MoveServed ==
    /\ EditOf({"moveItem"})
    /\ MoveParent \notin {MoveArg.nodeId} \cup DescendantIds(docs[calls[Served].key], MoveArg.nodeId)
SiblingsAfterMove == docs'[calls[Served].key][MoveParent].children
PlacedBy(field) == ~Has(MoveArg.target, "position") /\ Has(MoveArg.target, field)

\* C12: move before: moveItem with target {before: Y}, Y a current child of
\* the resolved target parent, leaves the moved node X immediately preceding
\* Y among that parent's children, wherever X was.
C12_MoveBefore ==
    [][(MoveServed /\ PlacedBy("before") /\ MoveArg.target.before # MoveArg.nodeId) =>
          /\ MoveArg.nodeId \in Range(SiblingsAfterMove)
          /\ IndexOf(SiblingsAfterMove, MoveArg.nodeId) + 1
                = IndexOf(SiblingsAfterMove, MoveArg.target.before)]_vars

\* C13: move after: moveItem with target {after: Y}, Y a current child of the
\* resolved target parent, leaves the moved node X immediately following Y
\* among that parent's children, wherever X was.
C13_MoveAfter ==
    [][(MoveServed /\ ~Has(MoveArg.target, "before") /\ PlacedBy("after")
           /\ MoveArg.target.after # MoveArg.nodeId) =>
          /\ MoveArg.nodeId \in Range(SiblingsAfterMove)
          /\ IndexOf(SiblingsAfterMove, MoveArg.nodeId)
                = IndexOf(SiblingsAfterMove, MoveArg.target.after) + 1]_vars

\* The step is the docRead of an operation named in ops.
ReadOf(ops) == Serves("docRead") /\ calls[Served].op \in ops

\* The parent a moveItem call resolves on the document as it stands.
TargetParentOf(i) ==
    IF Has(calls[i].arg.target, "parent") THEN calls[i].arg.target.parent
    ELSE CurrentParent(docRead(docs[calls[i].key]), calls[i].arg.nodeId)

\* Call i is a moveItem placed by `before' or `after' (field) whose node and
\* target parent exist and whose target id is no child of that parent.
TargetNotAChild(i, field) ==
    /\ calls[i].op = "moveItem"
    /\ ~Has(calls[i].arg.target, "position") /\ Has(calls[i].arg.target, field)
    /\ field = "after" => ~Has(calls[i].arg.target, "before")
    /\ calls[i].arg.nodeId \in DOMAIN docs[calls[i].key]
    /\ TargetParentOf(i) \in DOMAIN docs[calls[i].key]
    /\ calls[i].arg.target[field] \notin Range(docs[calls[i].key][TargetParentOf(i)].children)

FailedMove(i) == calls[i].op = "moveItem" /\ result[i].status = "error"

\* C14: target not found: a moveItem whose before or after id is not a
\* current child of the resolved target parent fails with the target-not-found
\* error; after the failure no edit call is issued, the document stays as it
\* was and the key is released.
C14_TargetNotFound ==
    [][/\ (ReadOf({"moveItem"}) /\ TargetNotAChild(Served, "before")) =>
             result'[Served] = Err("Target 'before' node not found")
       /\ (ReadOf({"moveItem"}) /\ TargetNotAChild(Served, "after")) =>
             result'[Served] = Err("Target 'after' node not found")
       /\ \A i \in Calls :
             FailedMove(i) =>
                /\ docs' = docs /\ log' = log
                /\ pc'[i] = "done" /\ NextP(i) \in fulfilled']_vars

\* C14 witness: a moveItem before an id that the document has, but under
\* another parent, has failed and released the key with only its docRead made.
C14_Witness ==
    \E i \in Calls :
        /\ FailedMove(i) /\ pc[i] = "done" /\ NextP(i) \in fulfilled
        /\ result[i].message = "Target 'before' node not found"
        /\ calls[i].arg.target.before \in DOMAIN docs[calls[i].key]
        /\ Len(log) = 1 /\ docs[calls[i].key] = WideDoc

MovePosition(where) ==
    Has(MoveArg.target, "position") /\ MoveArg.target.position = where

NamesUnknownId(i) ==
    \E n \in DOMAIN calls[i].arg.operations :
        LET operation == calls[i].arg.operations[n]
        IN  \/ operation.nodeId \notin DOMAIN docs[calls[i].key]
            \/ /\ Has(operation, "newParent")
               /\ operation.newParent \notin DOMAIN docs[calls[i].key]

NotFoundErrors == {Err("Node not found"), Err("Parent node not found")}

FailedRestructure(i) == calls[i].op = "restructureItems" /\ result[i].status = "error"

\* C16: restructureItems is validate-then-act: when any operation of the
\* batch, wherever it stands, names a nodeId or a newParent absent from the
\* snapshot, the call fails with a not-found error and no move edit is issued
\* at all: after the failure there is no docEdit and the document is as it was.
C16_ValidateThenAct ==
    [][/\ (ReadOf({"restructureItems"}) /\ NamesUnknownId(Served)) =>
             result'[Served] \in NotFoundErrors
       /\ \A i \in Calls :
             FailedRestructure(i) =>
                /\ docs' = docs /\ log' = log
                /\ \A n \in DOMAIN log : log[n].api # "docEdit"]_vars

\* C16 witness: a batch whose first operation is valid and whose second names
\* an unknown node has failed, with only the docRead made.
C16_Witness ==
    \E i \in Calls :
        /\ FailedRestructure(i) /\ pc[i] = "done"
        /\ Len(calls[i].arg.operations) = 2
        /\ calls[i].arg.operations[1].nodeId \in DOMAIN docs[calls[i].key]
        /\ calls[i].arg.operations[2].nodeId = NoSuchId
        /\ Len(log) = 1 /\ docs[calls[i].key] = WideDoc

TreeChildren(node) == IF Has(node, "children") THEN node.children ELSE <<>>

\* The nodes ids are, in order, the created nodes of the input nodes trees:
\* same content, and their children the created nodes of the input children.
RECURSIVE Reproduces(_, _, _)
Reproduces(nodes, ids, trees) ==
    /\ Len(ids) = Len(trees)
    /\ \A k \in DOMAIN ids :
          /\ ids[k] \in DOMAIN nodes
          /\ nodes[ids[k]].content = trees[k].content
          /\ Reproduces(nodes, nodes[ids[k]].children, TreeChildren(trees[k]))

\* The ids are among kids, in the order of ids.
InOrderAmong(kids, ids) ==
    /\ \A k \in DOMAIN ids : ids[k] \in Range(kids)
    /\ \A k, m \in DOMAIN ids : k < m => IndexOf(kids, ids[k]) < IndexOf(kids, ids[m])

CreatedHierarchy(i) ==
    /\ calls[i].op = "createListHierarchically"
    /\ pc[i] \in {"settled", "done"} /\ result[i].status = "ok"

\* C17: hierarchy creation reproduces the input tree: once
\* createListHierarchically has succeeded, each input node's created node is a
\* child of its input parent's created node, the siblings under each created
\* parent are in input order, and rootNodes are the created nodes of the input
\* roots, in input order, children of the document root.
C17_ReproducesTree ==
    \A i \in Calls :
        CreatedHierarchy(i) =>
            /\ Reproduces(docs[calls[i].key], result[i].value.rootNodes, calls[i].arg.tree)
            /\ InOrderAmong(docs[calls[i].key][Root].children, result[i].value.rootNodes)

\* C17 witness: the tree n1[n2[n3], n4] has been created in a document that
\* had three top-level items.
C17_Witness ==
    \E i \in Calls :
        /\ CreatedHierarchy(i)
        /\ calls[i].arg.tree = Forest(<<0, 1, 2, 1>>)
        /\ docs[calls[i].key][Root].children = <<1, 2, 3, 7>>
        /\ docs[calls[i].key][7].children = <<8, 10>>
        /\ docs[calls[i].key][8].children = <<9>>

\* The pre-order traversal of the input trees: each node, then its children's
\* traversal, then the node's later siblings.
RECURSIVE PreOrder(_)
PreOrder(trees) ==
    IF trees = <<>> THEN <<>>
    ELSE <<Head(trees)>> \o PreOrder(TreeChildren(Head(trees)))
            \o PreOrder(SubSeq(trees, 2, Len(trees)))

\* Entry n of the flattened list records the flat index of its input parent.
ParentRecorded(tree, flatNodes, n) ==
    IF Has(flatNodes[n], "parentIndex")
    THEN /\ flatNodes[n].parentIndex + 1 \in 1..(n - 1)
         /\ flatNodes[n].node
               \in Range(TreeChildren(flatNodes[flatNodes[n].parentIndex + 1].node))
    ELSE flatNodes[n].node \in Range(tree)

\* The entries of the flattened list that have a parent, in order.
MovedEntries(flatNodes) ==
    SelectSeq([n \in DOMAIN flatNodes |-> n], LAMBDA n : Has(flatNodes[n], "parentIndex"))

\* C18: order correspondence in createListHierarchically: the flattened list
\* is the pre-order traversal of the input tree, with each entry's parent
\* index; the insert batch lists the entries in that order; and the i-th
\* returned id is the node of the i-th entry and stands for it in every
\* restructure operation and move (nodeId = createdIds[i], newParent =
\* createdIds[parentIndex of entry i]).
C18_OrderCorrespondence ==
    \A i \in Calls :
        (calls[i].op = "createListHierarchically" /\ pc[i] \in {"read", "edit", "read2", "edit2"}) =>
            LET flatNodes == local[i].flatNodes
                nodes == docs[calls[i].key]
            IN  /\ [n \in DOMAIN flatNodes |-> flatNodes[n].node] = PreOrder(calls[i].arg.tree)
                /\ \A n \in DOMAIN flatNodes : ParentRecorded(calls[i].arg.tree, flatNodes, n)
                /\ pc[i] = "edit" =>
                      /\ Len(local[i].changes) = Len(flatNodes)
                      /\ \A n \in DOMAIN flatNodes :
                            /\ local[i].changes[n].action = "insert"
                            /\ local[i].changes[n].content = flatNodes[n].node.content
                /\ pc[i] \in {"read2", "edit2"} =>
                      LET createdIds == local[i].createdIds
                          moved == MovedEntries(flatNodes)
                          ops == local[i].restructureOps
                      IN  /\ Len(createdIds) = Len(flatNodes)
                          /\ \A n \in DOMAIN flatNodes :
                                nodes[createdIds[n]].content = flatNodes[n].node.content
                          /\ Len(ops) = Len(moved)
                          /\ \A k \in DOMAIN moved :
                                /\ ops[k].nodeId = createdIds[moved[k]]
                                /\ ops[k].newParent
                                      = createdIds[flatNodes[moved[k]].parentIndex + 1]
                          /\ pc[i] = "edit2" =>
                                \A k \in DOMAIN moved :
                                   /\ local[i].changes[k].node_id = createdIds[moved[k]]
                                   /\ local[i].changes[k].parent_id
                                         = createdIds[flatNodes[moved[k]].parentIndex + 1]

\* C18 witness: the tree n1[n2[n3], n4] has been inserted flat and its three
\* moves are about to be sent.
C18_Witness ==
    \E i \in Calls :
        /\ calls[i].op = "createListHierarchically" /\ pc[i] = "edit2"
        /\ calls[i].arg.tree = Forest(<<0, 1, 2, 1>>)
        /\ local[i].createdIds = <<7, 8, 9, 10>>
        /\ Len(local[i].changes) = 3
        /\ docs[calls[i].key][Root].children = <<1, 2, 3, 7, 8, 9, 10>>

\* The step is the store's answer to the insert batch of a hierarchy creation,
\* with a number of created ids other than the number of flattened entries.
MiscountedInsert ==
    /\ EditOf({"createListHierarchically"}) /\ pc[Served] = "edit"
    /\ Has(LastServed, "returned")
    /\ LastServed.returned # Len(local[Served].flatNodes)

CountMismatchError == Err("Inserted fewer items")

\* C19: count mismatch in createListHierarchically: when the store returns a
\* number of created ids other than the number of flattened entries, the call
\* aborts with the count-mismatch error, and no restructure (move) batch is
\* issued: the failed call makes no further store call.
C19_CountMismatchAborts ==
    [][/\ MiscountedInsert =>
             /\ result'[Served] = CountMismatchError
             /\ pc'[Served] = "settled"
       /\ \A i \in Calls :
             (calls[i].op = "createListHierarchically" /\ result[i] = CountMismatchError) =>
                /\ log' = log /\ docs' = docs
                /\ \A n \in DOMAIN log :
                      \A k \in DOMAIN log[n].changes : log[n].changes[k].action # "move"]_vars

\* C19 witness: a tree of three nodes was sent, the store created one node
\* and returned one id, and the call has failed after that one docEdit.
C19_Witness ==
    \E i \in Calls :
        /\ calls[i].op = "createListHierarchically" /\ pc[i] = "done"
        /\ result[i] = CountMismatchError
        /\ Len(log) = 2 /\ Len(log[2].changes) = 3
        /\ Has(log[2], "returned") /\ log[2].returned = 1
        /\ Root \in DOMAIN docs[calls[i].key]
        /\ docs[calls[i].key][Root].children = <<1, 2, 4>>

\* The nodes at depth d of the document, root's direct children being depth 0.
RECURSIVE AtDepth(_, _)
AtDepth(nodes, d) ==
    IF Root \notin DOMAIN nodes THEN {}
    ELSE IF d = 0 THEN Range(nodes[Root].children)
    ELSE UNION {Range(nodes[q].children) : q \in AtDepth(nodes, d - 1) \cap DOMAIN nodes}

\* path leads from a direct child of root down to the parent of id, each
\* entry a child of the one before.
LeadsDownTo(nodes, path, id) ==
    IF path = <<>> THEN id \in Range(nodes[Root].children)
    ELSE /\ path[1] \in Range(nodes[Root].children)
         /\ \A n \in 1..(Len(path) - 1) : path[n + 1] \in Range(nodes[path[n]].children)
         /\ id \in Range(nodes[path[Len(path)]].children)

AncestorsAsked(i) == calls[i].op = "getItemAncestors" /\ pc[i] = "done"

\* C20: ancestors: getItemAncestors of a node at depth D returns exactly D
\* entries, from the topmost ancestor down to the immediate parent, without
\* root and without the node itself, each entry the ListItem of its node; for
\* an id the snapshot does not have it fails with the node-not-found error.
C20_Ancestors ==
    \A i \in Calls :
        AncestorsAsked(i) =>
            LET nodes == docs[calls[i].key]
                id == calls[i].arg.nodeId
            IN  /\ id \notin DOMAIN nodes => result[i] = Err("Node not found")
                /\ \A d \in 0..Cardinality(DOMAIN nodes) :
                      (id \in DOMAIN nodes /\ id \in AtDepth(nodes, d)) =>
                         /\ result[i].status = "ok"
                         /\ Len(result[i].value) = d
                         /\ LeadsDownTo(nodes, [n \in 1..d |-> result[i].value[n].id], id)
                         /\ \A n \in 1..d :
                               /\ result[i].value[n].id \notin {Root, id}
                               /\ result[i].value[n].content = nodes[result[i].value[n].id].content
                               /\ result[i].value[n].children = nodes[result[i].value[n].id].children

\* C20 witness: the ancestors of the node two levels down have been returned:
\* its grandparent, then its parent.
C20_Witness ==
    \E i \in Calls :
        /\ AncestorsAsked(i) /\ calls[i].arg.nodeId = 6
        /\ result[i].status = "ok"
        /\ [n \in DOMAIN result[i].value |-> result[i].value[n].id] = <<2, 4>>

DescendantsAsked(i) ==
    calls[i].op = "getItemDescendants" /\ pc[i] = "done" /\ result[i].status = "ok"

\* The ids of the items a read operation returned, in order.
ReturnedIds(i) == [n \in DOMAIN result[i].value |-> result[i].value[n].id]

\* C21: descendants: getItemDescendants of a node with K reachable
\* descendants returns exactly K entries, each descendant exactly once and
\* never the starting node; child ids that do not resolve are skipped.
C21_Descendants ==
    \A i \in Calls :
        DescendantsAsked(i) =>
            LET nodes == docs[calls[i].key]
                reachable == DescendantIds(nodes, calls[i].arg.nodeId)
            IN  /\ Len(result[i].value) = Cardinality(reachable)
                /\ Range(ReturnedIds(i)) = reachable
                /\ calls[i].arg.nodeId \notin Range(ReturnedIds(i))
                /\ \A n \in DOMAIN result[i].value :
                      /\ result[i].value[n].id \in DOMAIN nodes
                      /\ result[i].value[n].content = nodes[result[i].value[n].id].content

\* C21 witness: the three descendants of a node whose children list also
\* names an id that does not resolve have been returned.
C21_Witness ==
    \E i \in Calls :
        /\ DescendantsAsked(i) /\ calls[i].arg.nodeId = 2
        /\ NoSuchId \in Range(docs[calls[i].key][2].children)
        /\ Range(ReturnedIds(i)) = {5, 6, 7}
        /\ Len(result[i].value) = 3

\* C22: pre-order: getItemDescendants returns the descendants depth-first
\* with every node before all of its own children.
C22_ParentBeforeChildren ==
    \A i \in Calls :
        DescendantsAsked(i) =>
            \A n, m \in DOMAIN result[i].value :
                result[i].value[m].id \in Range(result[i].value[n].children) => n < m

\* items mirror the children list ids at the given depth: one item per id
\* that resolves, in the order of ids, with that depth and the node's content,
\* and its children mirroring the node's children list one level deeper.
RECURSIVE Mirrors(_, _, _, _)
Mirrors(nodes, items, ids, depth) ==
    /\ [n \in DOMAIN items |-> items[n].id] = SelectSeq(ids, LAMBDA id : id \in DOMAIN nodes)
    /\ \A n \in DOMAIN items :
          /\ items[n].depth = depth
          /\ items[n].content = nodes[items[n].id].content
          /\ items[n].checked = nodes[items[n].id].checked
          /\ Mirrors(nodes, items[n].children, nodes[items[n].id].children, depth + 1)

TreeAsked(i) == calls[i].op = "getItemsWithTree" /\ pc[i] = "done"

\* C23: tree: getItemsWithTree returns a nested structure mirroring the
\* snapshot: root's children in order at depth 0, every materialized child one
\* deeper than its parent and in the order of the node's children list, child
\* ids absent from the snapshot skipped; without a root node, the empty result.
C23_TreeMirrorsSnapshot ==
    \A i \in Calls :
        TreeAsked(i) =>
            LET nodes == docs[calls[i].key]
            IN  /\ result[i].status = "ok"
                /\ IF Root \in DOMAIN nodes
                   THEN Mirrors(nodes, result[i].value, nodes[Root].children, 0)
                   ELSE result[i].value = <<>>

\* C23 witness: the tree of a document with three levels and an unresolved
\* child id has been returned: three top-level items, a grandchild at depth 2.
C23_Witness ==
    \E i \in Calls :
        /\ TreeAsked(i) /\ docs[calls[i].key] = DanglingDoc
        /\ Len(result[i].value) = 3
        /\ result[i].value[2].children[1].children[1].id = 7
        /\ result[i].value[2].children[1].children[1].depth = 2

\* The items of a list: the ids of root's children that resolve, in order.
TopItems(nodes) ==
    IF Root \notin DOMAIN nodes THEN <<>>
    ELSE SelectSeq(nodes[Root].children, LAMBDA id : id \in DOMAIN nodes)

CheckedItems(nodes) == SelectSeq(TopItems(nodes), LAMBDA id : nodes[id].checked)
UncheckedItems(nodes) == SelectSeq(TopItems(nodes), LAMBDA id : ~nodes[id].checked)

\* C24: clearList on a list with M checked and U unchecked items deletes
\* exactly the M checked items, returns M, and leaves exactly the U unchecked
\* items; with M = 0 it returns 0 without an edit.
C24_ClearList ==
    [][/\ (ReadOf({"clearList"}) /\ CheckedItems(docs[calls[Served].key]) = <<>>) =>
             /\ result'[Served] = Ok(0)
             /\ pc'[Served] = "settled"
       /\ EditOf({"clearList"}) =>
             LET before == docs[calls[Served].key]
                 after == docs'[calls[Served].key]
             IN  /\ LastServed.changes
                       = [n \in DOMAIN CheckedItems(before) |->
                             [action |-> "delete", node_id |-> CheckedItems(before)[n]]]
                 /\ result'[Served] = Ok(Len(CheckedItems(before)))
                 /\ TopItems(after) = UncheckedItems(before)
                 /\ Len(TopItems(after)) = Len(TopItems(before)) - Len(CheckedItems(before))
                 /\ \A n \in DOMAIN TopItems(after) : ~after[TopItems(after)[n]].checked
                 /\ \A id \in Range(CheckedItems(before)) : id \notin DOMAIN after]_vars

\* C24 witness: a list with two checked items and one unchecked item has been
\* cleared: 2 was returned and the unchecked item is the only one left.
C24_Witness ==
    \E i \in Calls :
        /\ calls[i].op = "clearList" /\ pc[i] = "settled" /\ result[i] = Ok(2)
        /\ TopItems(docs[calls[i].key]) = <<2>>
        /\ DOMAIN docs[calls[i].key] = {Root, 2, 5, 6, 7}

\* The node id the call is given is absent from the document as it stands.
GivenId(call) ==
    IF call.op \in {"addSubItems", "getItemChildren"} THEN call.arg.parentNodeId
    ELSE call.arg.nodeId

NotFoundOps ==
    {"moveItem", "addSubItems", "getItemChildren", "getItemAncestors", "getItemDescendants"}

NotFoundMessages == {"Node not found", "Parent node not found", "Target parent not found"}

FailedNotFound(i) ==
    /\ calls[i].op \in NotFoundOps
    /\ result[i].status = "error" /\ result[i].message \in NotFoundMessages

\* C25: not found before any mutating call: moveItem given an unknown node
\* or resolving an absent target parent, addSubItems and getItemChildren given
\* an unknown parent, getItemAncestors and getItemDescendants given an unknown
\* node fail with the not-found error on their docRead; the failed operation
\* issues no docEdit and the document stays as it was.
C25_NotFoundBeforeEdit ==
    [][/\ (ReadOf(NotFoundOps) /\ GivenId(calls[Served]) \notin DOMAIN docs[calls[Served].key]) =>
             result'[Served] =
                 IF calls[Served].op \in {"addSubItems", "getItemChildren"}
                 THEN Err("Parent node not found")
                 ELSE Err("Node not found")
       /\ (/\ ReadOf({"moveItem"})
           /\ GivenId(calls[Served]) \in DOMAIN docs[calls[Served].key]
           /\ TargetParentOf(Served) \notin DOMAIN docs[calls[Served].key]) =>
             result'[Served] = Err("Target parent not found")
       /\ \A i \in Calls :
             FailedNotFound(i) =>
                /\ docs' = docs
                /\ \A n \in DOMAIN log' : log'[n].api # "docEdit"]_vars

\* C25 witness: a moveItem of a known node to a parent the document does not
\* have has failed and finished, with only its docRead made.
C25_Witness ==
    \E i \in Calls :
        /\ FailedNotFound(i) /\ calls[i].op = "moveItem" /\ pc[i] = "done"
        /\ result[i].message = "Target parent not found"
        /\ calls[i].arg.nodeId \in DOMAIN docs[calls[i].key]
        /\ Has(calls[i].arg.target, "parent") /\ calls[i].arg.target.parent = NoSuchId
        /\ Len(log) = 1 /\ docs[calls[i].key] = WideDoc


\* C30: numeric clamp: moveItem with a numeric position p emits one move
\* under the resolved target parent whose index is 0 for p < 0, the parent's
\* child count in the snapshot for p above it, and p otherwise.
C30_NumericClamp ==
    [][(EditOf({"moveItem"}) /\ Has(MoveArg.target, "position")
            /\ MoveArg.target.position[1] = "number") =>
          LET p == MoveArg.target.position[2]
              siblingCount == Len(docs[calls[Served].key][TargetParentOf(Served)].children)
          IN  /\ Len(LastServed.changes) = 1
              /\ LastServed.changes[1].action = "move"
              /\ LastServed.changes[1].node_id = MoveArg.nodeId
              /\ MoveParent = TargetParentOf(Served)
              /\ LastServed.changes[1].index =
                     IF p < 0 THEN 0 ELSE IF p > siblingCount THEN siblingCount ELSE p]_vars

\* A move to the numeric position -1 under a named parent was served at index 0.
C30_Witness ==
    /\ Len(log) = 2 /\ log[2].api = "docEdit" /\ calls[1].op = "moveItem"
    /\ Has(calls[1].arg.target, "position")
    /\ calls[1].arg.target.position[1] = "number"
    /\ calls[1].arg.target.position[2] = -1
    /\ log[2].changes[1].index = 0
    /\ Has(calls[1].arg.target, "parent")

\* The store calls of kind api that call i has made, in order.
StoreCalls(i, api) == SelectSeq(log, LAMBDA e : e.call = i /\ e.api = api)

\* Every change of the batch has the given action.
BatchOf(action, changes) == \A n \in DOMAIN changes : changes[n].action = action

\* No node of the input has children.
Childless(tree) ==
    \A n \in DOMAIN tree : ~Has(tree[n], "children") \/ Len(tree[n].children) = 0

\* C28: bounded round trips: createListHierarchically issues at most two
\* docEdit batches (the first of inserts, the second of moves) and at most two
\* docRead calls whatever the tree; an input whose nodes have no children has
\* issued exactly one docEdit batch, of inserts, when it completes; an empty
\* input issues no store call.
C28_BoundedRoundTrips ==
    \A i \in DOMAIN calls :
        calls[i].op = "createListHierarchically" =>
            LET edits == StoreCalls(i, "docEdit")
                reads == StoreCalls(i, "docRead")
                tree == calls[i].arg.tree
            IN  /\ Len(edits) <= 2 /\ Len(reads) <= 2
                /\ Len(edits) >= 1 => BatchOf("insert", edits[1].changes)
                /\ Len(edits) = 2 => BatchOf("move", edits[2].changes)
                /\ (Len(tree) > 0 /\ Childless(tree) /\ pc[i] = "done") =>
                       Len(edits) = 1
                /\ Len(tree) = 0 => Len(edits) = 0 /\ Len(reads) = 0

\* A tree of depth 3 has been created in two batches, and so completed.
C28_Witness ==
    \E i \in DOMAIN calls :
        /\ calls[i].op = "createListHierarchically" /\ pc[i] = "done"
        /\ Len(calls[i].arg.tree) = 1
        /\ Has(calls[i].arg.tree[1], "children")
        /\ Len(calls[i].arg.tree[1].children) > 0
        /\ Has(calls[i].arg.tree[1].children[1], "children")
        /\ Len(StoreCalls(i, "docEdit")) = 2
        /\ Len(StoreCalls(i, "docRead")) = 2

\* A childless input has completed.
C28_ChildlessDone ==
    \E i \in DOMAIN calls :
        /\ calls[i].op = "createListHierarchically" /\ pc[i] = "done"
        /\ Len(calls[i].arg.tree) > 0 /\ Childless(calls[i].arg.tree)

\* The number of characters in the runs from..to of name.
RECURSIVE RunsLength(_, _, _)
RunsLength(name, from, to) ==
    IF from > to THEN 0 ELSE name[from].n + RunsLength(name, from + 1, to)

\* The length of name between its first and its last non-blank character.
TrimmedLength(name) ==
    LET inked == {n \in DOMAIN name : name[n].ch # " "}
        first == CHOOSE n \in inked : \A m \in inked : n <= m
        last == CHOOSE n \in inked : \A m \in inked : m <= n
    IN  IF inked = {} THEN 0 ELSE RunsLength(name, first, last)

InvalidName(name) == TrimmedLength(name) = 0 \/ TrimmedLength(name) > 200

\* C26: createList with a name that is empty after trimming, or longer than
\* 200 characters after trimming, fails with the invalid-name error without
\* any store call (no fileList, no fileEdit), and the parent key is released
\* once the call is over: release() has been called, so the promise the next
\* caller on that key awaits is fulfilled or can fulfil.
C26_InvalidNameBeforeStore ==
    \A i \in DOMAIN calls :
        (calls[i].op = "createList" /\ InvalidName(calls[i].arg.name)) =>
            /\ \A n \in DOMAIN log : log[n].call # i
            /\ pc[i] # "awaitPrev" =>
                  /\ pc[i] \in {"settled", "done"}
                  /\ result[i] = Err(IF TrimmedLength(calls[i].arg.name) = 0
                                     THEN "List name is empty"
                                     ELSE "List name is too long")
            /\ pc[i] = "done" =>
                  /\ NextP(i) \in fulfilled
                  /\ ThenP(i) \in fulfilled \/ ThenFulfils(prev[i], i, fulfilled)

\* A name of 201 characters around an inner blank has been refused and the
\* call is over.
C26_Witness ==
    \E i \in DOMAIN calls :
        /\ calls[i].op = "createList" /\ pc[i] = "done"
        /\ Len(calls[i].arg.name) = 3
        /\ TrimmedLength(calls[i].arg.name) = 201
        /\ result[i] = Err("List name is too long")

\* The messages that match /lock|TooManyRequests/i.
TransientMessages == {"LockFail", "Blocked", "TooManyRequests", "TOOMANYREQUESTS"}

\* The error a fileEdit attempt ended with, given its log entry.
AttemptFailed(e) == Has(e.response, "thrown") \/ ~Has(e.response, "created")
                       \/ Len(e.response.created) = 0
AttemptMessage(e) ==
    IF Has(e.response, "thrown") THEN e.response.thrown
    ELSE IF Has(e.response, "_msg") /\ e.response._msg # "" THEN e.response._msg
    ELSE "create failed"
AttemptTransient(e) == AttemptFailed(e) /\ AttemptMessage(e) \in TransientMessages

\* C29: bounded, selective create retry: a createList call makes at most 3
\* fileEdit attempts; every attempt that was followed by another failed with
\* a message matching lock or TooManyRequests (whatever the case); a failure
\* with any other message ends the call with that error at once; a transient
\* failure is followed by another attempt unless it is the third, and after
\* the third the call ends with the last error; a successful attempt ends the
\* call with that attempt's created id.
C29_BoundedSelectiveRetry ==
    \A i \in DOMAIN calls :
        calls[i].op = "createList" =>
            LET attempts == StoreCalls(i, "fileEdit")
                last == attempts[Len(attempts)]
                over == pc[i] \in {"settled", "done"}
            IN  /\ Len(attempts) <= 3
                /\ \A n \in 1..(Len(attempts) - 1) : AttemptTransient(attempts[n])
                /\ Len(attempts) > 0 =>
                      /\ ~AttemptFailed(last) =>
                            over /\ result[i] = Ok([id |-> last.response.created[1]])
                      /\ (AttemptFailed(last) /\ ~AttemptTransient(last)) =>
                            over /\ result[i] = Err(AttemptMessage(last))
                      /\ (AttemptTransient(last) /\ Len(attempts) < 3) => ~over
                      /\ (AttemptTransient(last) /\ over) =>
                            Len(attempts) = 3 /\ result[i] = Err(AttemptMessage(last))

\* Two attempts failed with LockFail and TOOMANYREQUESTS, the third created
\* the list, and the call has returned its id.
C29_Witness ==
    \E i \in DOMAIN calls :
        /\ calls[i].op = "createList" /\ pc[i] = "done"
        /\ Len(StoreCalls(i, "fileEdit")) = 3
        /\ AttemptMessage(StoreCalls(i, "fileEdit")[1]) = "LockFail"
        /\ AttemptMessage(StoreCalls(i, "fileEdit")[2]) = "TOOMANYREQUESTS"
        /\ ~AttemptFailed(StoreCalls(i, "fileEdit")[3])
        /\ result[i].status = "ok"

\* Three transient failures: the call has ended with the last one's error.
C29_ThreeFailures ==
    \E i \in DOMAIN calls :
        /\ calls[i].op = "createList" /\ pc[i] = "done"
        /\ Len(StoreCalls(i, "fileEdit")) = 3
        /\ AttemptMessage(StoreCalls(i, "fileEdit")[2]) = "LockFail"
        /\ AttemptMessage(StoreCalls(i, "fileEdit")[3]) = "Blocked"
        /\ result[i] = Err("Blocked")

\* Some call can take a step: its await resumes, its store call is served,
\* its finally block runs, or its chain promise settles.
CallStep ==
    \E i \in Calls :
        \/ pc[i] = "awaitPrev" /\ AwaitResumes(prev[i], fulfilled)
        \/ pc[i] \in {"read", "edit", "read2", "edit2", "settled"}
        \/ prev[i] # NoPromise /\ ThenP(i) \notin fulfilled
               /\ ThenFulfils(prev[i], i, fulfilled)

\* The step installs a chain tail: a call is made, under its own key only.
AcquiresAtCall ==
    \A k \in DOMAIN locks :
        (locks'[k] # locks[k] /\ locks'[k] # NoPromise) =>
            /\ Len(calls') = Len(calls) + 1
            /\ calls'[Len(calls')].key = k
            /\ locks'[k] = ThenP(Len(calls'))
            /\ \A other \in DOMAIN locks \ {k} : locks'[other] = locks[other]

\* C27: no nested locking, hence no deadlock: a key is acquired only by the
\* step that submits a call, for that call's one key, never by a step of a
\* call that is running; a call waits for nothing but the chain of an earlier
\* call under its own key; and whenever some call is not over, some call can
\* take a step.
C27_NoNestedLocking ==
    /\ [][AcquiresAtCall]_vars
    /\ [](\A i \in DOMAIN calls :
             prev[i] # NoPromise =>
                 \/ prev[i] = Imm(i)
                 \/ \E j \in 1..(i - 1) : SameKey(i, j) /\ prev[i] = ThenP(j))
    /\ []((\E i \in DOMAIN calls : pc[i] # "done") => CallStep)

\* createListHierarchically is in its second phase, inside its critical
\* section, while a clearList submitted after it under the same key waits.
C27_Witness ==
    \E i, j \in DOMAIN calls :
        /\ i < j /\ SameKey(i, j)
        /\ calls[i].op = "createListHierarchically" /\ pc[i] = "edit2"
        /\ calls[j].op = "clearList" /\ pc[j] = "awaitPrev"

\* The nodes of the served call's document that list id among their children.
OwnersOf(id) ==
    {n \in DOMAIN docs[calls[Served].key] : id \in Range(docs[calls[Served].key][n].children)}

\* C31: moveItem with no explicit parent emits a move whose parent_id is the
\* node that lists nodeId among its children in the snapshot, and 'root' when
\* no node lists it.
C31_ImplicitParent ==
    [][(EditOf({"moveItem"}) /\ ~Has(MoveArg.target, "parent")) =>
          /\ LastServed.changes[1].action = "move"
          /\ LastServed.changes[1].node_id = MoveArg.nodeId
          /\ IF OwnersOf(MoveArg.nodeId) = {} THEN MoveParent = Root
             ELSE MoveParent \in OwnersOf(MoveArg.nodeId)]_vars

\* A node two levels down was moved, with no parent given, under its parent.
C31_Witness ==
    /\ Len(log) = 2 /\ log[2].api = "docEdit" /\ calls[1].op = "moveItem"
    /\ ~Has(calls[1].arg.target, "parent")
    /\ calls[1].arg.nodeId = 7
    /\ log[2].changes[1].parent_id = 5

\* The node of OrphanDoc that no children list names was moved, with no
\* parent given, under root.
C31_OrphanMoved ==
    /\ Len(log) = 2 /\ log[2].api = "docEdit" /\ calls[1].op = "moveItem"
    /\ ~Has(calls[1].arg.target, "parent")
    /\ calls[1].arg.nodeId = 2
    /\ DOMAIN docs[calls[1].key] = DOMAIN OrphanDoc
    /\ log[2].changes[1].parent_id = Root

\* Change ch is the move that operation op asks for.
MoveFor(ch, op) ==
    /\ ch.action = "move" /\ ch.node_id = op.nodeId /\ ch.index = op.newIndex
    /\ IF Has(op, "newParent") THEN ch.parent_id = op.newParent ELSE ch.parent_id = Root

\* C32: restructureItems on a fully valid batch issues exactly one docEdit,
\* holding one move per operation in the given order (node_id = nodeId,
\* index = newIndex, parent_id = newParent, or 'root' when it is omitted), and
\* returns the number of operations; an empty batch issues no read and no
\* edit and returns 0.
C32_OneMovePerOperation ==
    /\ [][EditOf({"restructureItems"}) =>
            LET operations == calls[Served].arg.operations
            IN  /\ Len(LastServed.changes) = Len(operations)
                /\ \A n \in DOMAIN operations : MoveFor(LastServed.changes[n], operations[n])
                /\ result'[Served] = Ok(Len(operations))]_vars
    /\ [](\A i \in DOMAIN calls :
             calls[i].op = "restructureItems" =>
                 /\ Len(StoreCalls(i, "docEdit")) <= 1
                 /\ (~NamesUnknownId(i) /\ Len(calls[i].arg.operations) > 0
                        /\ pc[i] \in {"settled", "done"}) =>
                       /\ Len(StoreCalls(i, "docEdit")) = 1
                       /\ result[i] = Ok(Len(calls[i].arg.operations))
                 /\ Len(calls[i].arg.operations) = 0 =>
                       /\ \A n \in DOMAIN log : log[n].call # i
                       /\ pc[i] # "awaitPrev" => result[i] = Ok(0))

\* A valid batch of two different operations, one with newParent and one
\* without, has been served and the call is over.
C32_Witness ==
    \E i \in DOMAIN calls :
        /\ calls[i].op = "restructureItems" /\ pc[i] = "done"
        /\ Len(calls[i].arg.operations) = 2
        /\ Has(calls[i].arg.operations[1], "newParent")
        /\ ~Has(calls[i].arg.operations[2], "newParent")
        /\ calls[i].arg.operations[2].newIndex = 2
        /\ result[i] = Ok(2)
        /\ Len(StoreCalls(i, "docEdit")) = 1

\* An empty batch has returned 0 with nothing sent to the store.
C32_EmptyBatch ==
    \E i \in DOMAIN calls :
        /\ calls[i].op = "restructureItems" /\ pc[i] = "done"
        /\ Len(calls[i].arg.operations) = 0 /\ result[i] = Ok(0) /\ log = <<>>

AddOps == {"addItems", "addSubItems"}

\* The docEdit of an add call has been answered (it did not throw).
AddAnswered == EditOf(AddOps) /\ ~Has(LastServed, "failed")

\* The number of new node ids in the answer just served.
AnsweredIds ==
    IF Has(LastServed, "returned") THEN LastServed.returned
    ELSE nextId'[calls[Served].key] - nextId[calls[Served].key]

\* C33: addItems and addSubItems succeed only when the store returns exactly
\* as many new node ids as items were requested; when the id list is shorter,
\* longer or missing they fail with the count-mismatch error, raised after
\* the edit call, and the key is released.
C33_AddCountChecked ==
    /\ [][AddAnswered =>
            /\ pc'[Served] = "settled"
            /\ IF AnsweredIds = Len(calls[Served].arg.texts)
               THEN /\ result'[Served].status = "ok"
                    /\ Len(result'[Served].value.ids) = Len(calls[Served].arg.texts)
               ELSE result'[Served] = CountMismatchError]_vars
    /\ [](\A i \in DOMAIN calls :
             (calls[i].op \in AddOps /\ result[i] = CountMismatchError) =>
                 /\ Len(StoreCalls(i, "docEdit")) = 1
                 /\ pc[i] = "done" => NextP(i) \in fulfilled)

\* Two items were requested, the store answered with three ids, and the call
\* has failed with the count-mismatch error.
C33_Witness ==
    \E i \in DOMAIN calls :
        /\ calls[i].op = "addSubItems" /\ pc[i] = "done"
        /\ Len(calls[i].arg.texts) = 2
        /\ result[i] = CountMismatchError
        /\ Len(log) = 2 /\ Has(log[2], "returned") /\ log[2].returned = 3

\* The store applied the inserts and answered without new_node_ids; the call
\* has failed with the count-mismatch error.
C33_MissingIds ==
    \E i \in DOMAIN calls :
        /\ calls[i].op = "addItems" /\ pc[i] = "done"
        /\ result[i] = CountMismatchError
        /\ Len(log) = 2 /\ Has(log[2], "missing")

ItemOps == {"deleteItems", "checkItems", "editItems"}

\* The number of items the call asked to change.
Requested(i) ==
    IF calls[i].op = "editItems" THEN Len(calls[i].arg.edits) ELSE Len(calls[i].arg.nodeIds)

\* The number of changes of the batch just served that the store reports as
\* applied in its per-change results.
Affected ==
    LET key == calls[Served].key
        results == docEdit(docs[key], nextId[key], LastServed.changes).results
    IN  Cardinality({n \in DOMAIN results : results[n]})

\* C34: deleteItems, checkItems and editItems fail with a count-mismatch error
\* when the store's per-item results report fewer items affected than
\* requested, and on success return the number of items the store affected.
C34_AffectedCountChecked ==
    [][EditOf(ItemOps) =>
          IF Affected < Requested(Served)
          THEN result'[Served].status = "error"
          ELSE result'[Served] = Ok(Affected)]_vars

\* The ids of the checked direct children of root in nodes.
CheckedTopLevel(nodes) ==
    IF Root \notin DOMAIN nodes THEN {}
    ELSE {id \in Range(nodes[Root].children) \cap DOMAIN nodes : nodes[id].checked}

\* C39: the frame of clearList: every edit it emits is a delete of a node
\* that is a direct child of root and checked in the snapshot; no unchecked
\* top-level item and no nested node is deleted; it issues one docEdit holding
\* one delete per checked top-level item; and when no top-level item is
\* checked it issues no docEdit and returns 0.
C39_ClearListFrame ==
    /\ [][EditOf({"clearList"}) =>
            LET snapshot == docs[calls[Served].key]
                deleted(id) == {n \in DOMAIN LastServed.changes :
                                   LastServed.changes[n].node_id = id}
            IN  /\ \A n \in DOMAIN LastServed.changes :
                      /\ LastServed.changes[n].action = "delete"
                      /\ LastServed.changes[n].node_id \in CheckedTopLevel(snapshot)
                /\ \A id \in CheckedTopLevel(snapshot) : Cardinality(deleted(id)) = 1
                /\ StoreCalls(Served, "docEdit") = <<>>]_vars
    /\ [][(ReadOf({"clearList"}) /\ CheckedTopLevel(docs[calls[Served].key]) = {}) =>
            /\ pc'[Served] = "settled"
            /\ result'[Served] = Ok(0)]_vars
    /\ [](\A i \in DOMAIN calls :
             (calls[i].op = "clearList" /\ result[i] = Ok(0)) =>
                 StoreCalls(i, "docEdit") = <<>>)

\* A list with a checked top-level item, an unchecked one with a checked
\* child, and nested unchecked nodes has been cleared by one docEdit of two
\* deletes; the checked nested node is still there.
C39_Witness ==
    \E i \in DOMAIN calls :
        /\ calls[i].op = "clearList" /\ pc[i] = "done" /\ result[i] = Ok(2)
        /\ Len(StoreCalls(i, "docEdit")) = 1
        /\ 5 \in DOMAIN docs[calls[i].key] /\ docs[calls[i].key][5].checked
        /\ 1 \notin DOMAIN docs[calls[i].key]

\* A list whose only checked node is no child of root was left as it was.
C39_NothingChecked ==
    \E i \in DOMAIN calls :
        /\ calls[i].op = "clearList" /\ pc[i] = "done" /\ result[i] = Ok(0)
        /\ docs[calls[i].key] = OrphanDoc /\ Len(log) = 1

\* The document of the served call once the store has applied the first n
\* changes of the batch just served.
AfterChanges(n) ==
    docEdit(docs[calls[Served].key], nextId[calls[Served].key],
            SubSeq(LastServed.changes, 1, n)).nodes

\* C36: insert indices are in range: in every insert batch of addItems or
\* addSubItems, whatever the mix of 'top' and 'bottom', each insert's index is
\* between 0 and the number of children the parent has when the store, going
\* through the batch in order, comes to that insert.
C36_InsertIndexInRange ==
    [][EditOf(AddOps) =>
          \A n \in DOMAIN LastServed.changes :
              LET ch == LastServed.changes[n]
              IN  /\ ch.action = "insert"
                  /\ ch.parent_id \in DOMAIN AfterChanges(n - 1) =>
                        /\ 0 <= ch.index
                        /\ ch.index <= Len(AfterChanges(n - 1)[ch.parent_id].children)]_vars

\* A batch of a 'bottom' item and then a 'top' item was inserted under a node
\* that had children.
C36_Witness ==
    \E i \in DOMAIN calls :
        /\ calls[i].op = "addSubItems" /\ pc[i] = "done" /\ result[i].status = "ok"
        /\ calls[i].arg.parentNodeId = 2
        /\ Len(calls[i].arg.texts) = 2
        /\ PositionOf(calls[i].arg.texts[1]) = "bottom"
        /\ Has(calls[i].arg.texts[2], "opts") /\ PositionOf(calls[i].arg.texts[2]) = "top"
        /\ Len(log) = 2 /\ log[2].changes[1].index = 3 /\ log[2].changes[2].index = 1

\* C37: tree shape is preserved: no move emitted by moveItem or
\* restructureItems has as target parent the moved node itself or one of its
\* descendants in the snapshot.
C37_NoMoveIntoOwnSubtree ==
    [][EditOf({"moveItem", "restructureItems"}) =>
          \A n \in DOMAIN LastServed.changes :
              LET ch == LastServed.changes[n]
              IN  ch.parent_id \notin
                      {ch.node_id} \cup DescendantIds(docs[calls[Served].key], ch.node_id)]_vars

(***************************************************************************)
(* DynalistClient.post (checked under PostSpec).                           *)
(***************************************************************************)
\* The HTTP attempts of call i so far, and what fetch did on each.
Attempts(i) == StoreCalls(i, "fetch")

\* The response is one that post retries by itself: 429 or 5xx.
RetriedResponse(outcome) == Has(outcome, "status") /\ RetriedStatus(outcome.status)

\* The response is refused for good: its _code is not Ok, or its status is
\* an HTTP error other than 429 and 5xx.
RefusedResponse(outcome) ==
    /\ Has(outcome, "status")
    /\ ~RetriedStatus(outcome.status)
    /\ (StatusOk(outcome.status) => ~CodeOk(outcome.json))

\* post performs at most maxRetries+1 HTTP attempts for one call.
AttemptsBounded ==
    \A i \in Calls : Len(Attempts(i)) <= calls[i].arg.maxRetries + 1

\* post ends in one outcome: the response of its last attempt, whose _code
\* is Ok, or an error; it has none before it ends.
OneTerminalOutcome ==
    \A i \in Calls :
        IF pc[i] = "done"
        THEN \/ /\ result[i].status = "ok"
                /\ CodeOk(result[i].value)
                /\ result[i].value = Attempts(i)[Len(Attempts(i))].response.json
             \/ result[i].status = "error"
        ELSE result[i] = NoResult

\* 429 or 5xx on every attempt ends with the last HTTP error thrown.
AllRetriedThrowsLast ==
    \A i \in Calls :
        (pc[i] = "done" /\ \A n \in DOMAIN Attempts(i) : RetriedResponse(Attempts(i)[n].response))
            => /\ Len(Attempts(i)) = calls[i].arg.maxRetries + 1
               /\ result[i] = Err(Text("HTTP ")
                                     \o Digits(Attempts(i)[Len(Attempts(i))].response.status))

\* A refused response is thrown by the attempt that received it.
RefusedThrownAtOnce ==
    Serves("fetch") /\ RefusedResponse(LastServed.response)
        => pc'[Served] = "done" /\ result'[Served].status = "error"

\* C40: post performs at most maxRetries+1 HTTP attempts for one call and
\* always ends in exactly one terminal outcome, a returned response whose _code
\* is Ok or a thrown error; a 429 or 5xx response on every attempt ends with
\* the last HTTP error thrown, and a response whose _code is not Ok or a
\* non-retriable HTTP error is thrown after a single attempt without retry.
C40_PostTerminates ==
    /\ [](AttemptsBounded /\ OneTerminalOutcome /\ AllRetriedThrowsLast)
    /\ [][RefusedThrownAtOnce]_vars

\* The parts of C40 that the code keeps: the bound on the attempts, the one
\* terminal outcome, and the last HTTP error after 429 or 5xx throughout.
C40_BoundedAttempts ==
    AttemptsBounded /\ OneTerminalOutcome /\ AllRetriedThrowsLast

\* A refused response is thrown at once unless its error message carries one
\* of the markers of isRetriableError and attempts are left.
C40_RefusedUnlessMarked ==
    [][Serves("fetch") /\ RefusedResponse(LastServed.response)
          => LET outcome == LastServed.response
                 message == IF StatusOk(outcome.status) THEN ApiErrorMessage(outcome.json)
                            ELSE HttpErrorMessage(outcome)
             IN  IF isRetriableError(message)
                    /\ Len(Attempts(Served)) < calls[Served].arg.maxRetries
                 THEN pc'[Served] = "delay"
                 ELSE pc'[Served] = "done" /\ result'[Served] = Err(message)]_vars

\* A call with maxRetries 2 got 429, 500 and 599 and threw `HTTP 599'.
C40_AllRetried ==
    \E i \in Calls :
        /\ pc[i] = "done" /\ calls[i].arg.maxRetries = 2
        /\ Len(Attempts(i)) = 3
        /\ \A n \in 1..3 : RetriedResponse(Attempts(i)[n].response)
        /\ Attempts(i)[1].response.status = 429
        /\ Attempts(i)[3].response.status = 599
        /\ result[i] = Err(Text("HTTP ") \o Digits(599))

\* A response with _code Invalid and _msg `network error' was received with
\* attempts left, and post is in its backoff delay.
C40_RefusedRetried ==
    \E i \in Calls :
        /\ pc[i] = "delay"
        /\ Attempts(i)[Len(Attempts(i))].response
               = [status |-> 200, json |-> [_code |-> "Invalid", _msg |-> "network error"]]

(***************************************************************************)
(* No repair after a failed createListHierarchically (checked under        *)
(* FaultSpec: the store may miscount, answer without ids, or fail a call). *)
(***************************************************************************)
\* The nodes of the document that carry the content of a node of some tree:
\* no document starts with such a node, so these are the inserted ones.
TreeContents == {Name(k) : k \in 1..8}
Inserted(i) ==
    {id \in DOMAIN docs[calls[i].key] \ {Root} :
        docs[calls[i].key][id].content \in TreeContents}

\* Call i is a createListHierarchically that has failed after its insert
\* batch was applied, in whole or in part.
FailedAfterInsert(i) ==
    /\ calls[i].op = "createListHierarchically"
    /\ result[i].status = "error"
    /\ \E n \in DOMAIN log :
          /\ log[n].call = i /\ log[n].api = "docEdit" /\ ~Has(log[n], "failed")
          /\ BatchOf("insert", log[n].changes)
    /\ Inserted(i) # {}

\* C35: no rollback after a mutating call: if createListHierarchically fails
\* after its insert batch was applied (count mismatch, or the restructure
\* read, validation or move batch fails), no compensating edit is issued (the
\* failed call makes no further store call, the document stays as it is, and
\* no batch that was applied deletes or moves a node), the inserted nodes
\* remain children of root, the error is the outcome of the call, and
\* release() has been called when the call is over.
C35_NoRollback ==
    /\ [][\A i \in Calls :
             /\ FailedAfterInsert(i) => log' = log /\ docs' = docs
             /\ (calls[i].op = "createListHierarchically"
                   /\ result[i] = NoResult /\ result'[i].status = "error")
                   => DOMAIN docs[calls[i].key] \subseteq DOMAIN docs'[calls[i].key]]_vars
    /\ [](\A i \in Calls :
             FailedAfterInsert(i) =>
                /\ Inserted(i) \subseteq Range(docs[calls[i].key][Root].children)
                /\ \A n \in DOMAIN log :
                      (log[n].api = "docEdit" /\ ~Has(log[n], "failed"))
                          => BatchOf("insert", log[n].changes)
                /\ \A n \in DOMAIN log :
                      (log[n].api = "docEdit" /\ Has(log[n], "returned"))
                          => Cardinality(Inserted(i))
                                 = IF Has(log[n], "missing") THEN Len(log[n].changes)
                                   ELSE Min(log[n].returned, Len(log[n].changes))
                /\ pc[i] \in {"settled", "done"}
                /\ result[i] \in {CountMismatchError, Err("Request failed")}
                /\ pc[i] = "done" => NextP(i) \in fulfilled)

\* C35 witness: a tree of a node with two children was inserted as three
\* children of root, the move batch failed, and the call is over: the three
\* nodes are still children of root and the key has been released.
C35_Witness ==
    \E i \in Calls :
        /\ FailedAfterInsert(i) /\ pc[i] = "done"
        /\ result[i] = Err("Request failed")
        /\ Len(log) = 4 /\ log[4].api = "docEdit" /\ Has(log[4], "failed")
        /\ BatchOf("move", log[4].changes) /\ Len(log[4].changes) = 2
        /\ Cardinality(Inserted(i)) = 3
        /\ Inserted(i) \subseteq Range(docs[calls[i].key][Root].children)
        /\ NextP(i) \in fulfilled

\* A tree of three nodes was sent, the store inserted two and returned two
\* ids, and the call is over with the count-mismatch error and the two nodes
\* under root.
C35_PartialInsert ==
    \E i \in Calls :
        /\ FailedAfterInsert(i) /\ pc[i] = "done"
        /\ result[i] = CountMismatchError
        /\ Len(log) = 2 /\ Len(log[2].changes) = 3
        /\ Has(log[2], "returned") /\ log[2].returned = 2
        /\ Cardinality(Inserted(i)) = 2

(***************************************************************************)
(* Concurrent createList calls (checked under FolderSpec).                 *)
(***************************************************************************)
\* parent_id: parentId || 'root'
EffectiveParent(call) == IF call.key = "" THEN "root" ELSE call.key

\* Call i has its file list and has not yet got its document created or
\* given up: it is between its fileList and its last fileEdit.
BetweenListAndCreate(i) ==
    calls[i].op = "createList" /\ pc[i] \in {"fileEdit", "backoff"}

\* C38: createList calls that create a document under the same effective
\* parent folder (the parent_id sent to the store, where an empty parentId is
\* sent as 'root') are serialized: the fileList-read then fileEdit-create
\* sequences of two such calls never interleave, that is, no two of them are
\* between their fileList and their last fileEdit at once.
C38_SameFolderSerialized ==
    \A i, j \in Calls :
        (i # j /\ EffectiveParent(calls[i]) = EffectiveParent(calls[j])
               /\ BetweenListAndCreate(i))
            => ~BetweenListAndCreate(j)

\* What the code keeps: calls given the same parentId never interleave.
C38_SameParentIdSerialized ==
    \A i, j \in Calls :
        (i # j /\ calls[i].key = calls[j].key /\ BetweenListAndCreate(i))
            => ~BetweenListAndCreate(j)

\* createList(name, '') and createList(name, 'root') have both read the file
\* list and are about to create at the same index under 'root'.
C38_SameIndexTwice ==
    \E i, j \in Calls :
        /\ calls[i].key = "" /\ calls[j].key = "root"
        /\ pc[i] = "fileEdit" /\ pc[j] = "fileEdit"
        /\ local[i].changes[1].parent_id = "root"
        /\ local[j].changes[1].parent_id = "root"
        /\ local[i].changes[1].index = local[j].changes[1].index

====
